---- MODULE Spec2Model ----
(***************************************************************************)
(* Model of the database change-data-capture pipeline of VTIHub_bot.py:    *)
(* the watchdog handler DatabaseChangeHandler (debounce + job scheduling), *)
(* the scan body process_db_changes_callback, the per-row publisher        *)
(* process_and_send_db_case, the cursor file helpers and the start-up      *)
(* bootstrap of __main__.                                                  *)
(*                                                                         *)
(* Time is a discrete clock `now` (seconds).  time.time() is far larger    *)
(* than DB_PROCESSING_DELAY, so the clock starts at DB_PROCESSING_DELAY    *)
(* and the initial _last_processed_event_time = 0 never debounces.         *)
(***************************************************************************)
EXTENDS Integers, Sequences, FiniteSets, TLC

\* ---------------------------------------------------------------- bounds
MaxRows == 2        \* rows the table may come to hold
MaxTime == 5        \* last time at which the data file is written
MaxBurst == 2       \* longest stream of on_modified calls that is observed
MaxLines == 2       \* lines of a message text handed to the print action
MaxChars == 2       \* characters of a cursor file found on disk
MaxSaved == 11      \* largest id handed to save_last_known_id_to_file alone

\* ------------------------------------------------------ program constants
DB_PROCESSING_DELAY == 2
TARGET_CHANNEL_ID == TRUE       \* the constant is a non-empty string: truthy
None == -1                      \* Python None of an Optional[int] / no job

VARIABLES
    cases,          \* primkey_case values present in table cases
    idFile,         \* cursor file: [exists, content]
    bot_data,       \* bot_data[LAST_KNOWN_DB_CASE_ID_KEY]
    debug_mode,     \* bot_data['debug_mode']
    now,            \* wall clock
    last_processed_event_time,  \* DatabaseChangeHandler._last_processed_event_time
    jobs,           \* job queue + running callbacks: job id -> record
    lockHolder,     \* DatabaseChangeHandler._processing_lock: holder or None
    waiters,        \* FIFO of jobs blocked in `async with self._processing_lock`
    inFlight,       \* rows whose bot.send_message has begun and not returned
    \* history of the current process lifetime (observations only)
    bootCursor,     \* cursor set by the bootstrap
    bootMax,        \* largest row id present at bootstrap
    sendLog,        \* <<row, ok>> for every send_message that returned/raised
    evHist,         \* shape of the on_modified calls so far (see Observe)
    uncovered,      \* an event was dropped and no fetch has started since
    lastScan,       \* how the latest scan of this lifetime ended (see ScanEnds)
    observer,       \* __main__: the watchdog observer was created and started
    bootFallback,   \* the bootstrap found no valid id in the cursor file
    foreignSeen,    \* on_modified was called for a directory or another path
    codec,          \* the ticket message at hand and what the print action made of it
    main,           \* __main__: the statement it has reached and its locals
    handler         \* the chat handler that is running, its locals and its calls of the Bot API

vars == <<cases, idFile, bot_data, debug_mode, now, last_processed_event_time, jobs, lockHolder, waiters,
          inFlight, bootCursor, bootMax, sendLog, evHist, uncovered, lastScan, observer, bootFallback, foreignSeen, codec, main, handler>>


\* ---------------------------------------------------------------- helpers
Max(S) == IF S = {} THEN 0 ELSE CHOOSE m \in S : \A x \in S : x <= m

Min(S) == CHOOSE m \in S : \A x \in S : m <= x

RECURSIVE SortAsc(_)
SortAsc(S) == IF S = {} THEN <<>> ELSE <<Min(S)>> \o SortAsc(S \ {Min(S)})

RECURSIVE SortDesc(_)
SortDesc(S) == IF S = {} THEN <<>> ELSE <<Max(S)>> \o SortDesc(S \ {Max(S)})

Digits == <<"0", "1", "2", "3", "4", "5", "6", "7", "8", "9">>

IsDigit(ch) == \E i \in 1..10 : Digits[i] = ch

DigitVal(ch) == (CHOOSE i \in 1..10 : Digits[i] = ch) - 1

\* str(last_id) for last_id >= 0
RECURSIVE Str(_)
Str(n) == IF n < 10 THEN <<Digits[n + 1]>>
          ELSE Str(n \div 10) \o <<Digits[(n % 10) + 1]>>

\* Characters besides "0".."9" that str.isdigit() accepts: ARABIC-INDIC
\* DIGIT FOUR, a decimal digit that int() reads as 4, and SUPERSCRIPT TWO,
\* a digit that is no decimal digit, for which int() raises ValueError
ArabicFour == "U+0664"

SuperscriptTwo == "U+00B2"

IsDecimal(ch) == IsDigit(ch) \/ ch = ArabicFour

DecimalVal(ch) == IF ch = ArabicFour THEN 4 ELSE DigitVal(ch)

\* int(content) for a string of decimal digits
RECURSIVE ParseInt(_)
ParseInt(s) == IF s = <<>> THEN 0
               ELSE 10 * ParseInt(SubSeq(s, 1, Len(s) - 1)) + DecimalVal(s[Len(s)])

\* int(content) raises ValueError
IntRaises(s) == s = <<>> \/ \E i \in 1..Len(s) : ~IsDecimal(s[i])

\* Whitespace that str.strip() removes
IsWhitespace(ch) == ch \in {" ", "\n", "\t"}

\* content.strip()
RECURSIVE Strip(_)
Strip(s) == IF s = <<>> THEN s
            ELSE IF IsWhitespace(Head(s)) THEN Strip(Tail(s))
            ELSE IF IsWhitespace(s[Len(s)]) THEN Strip(SubSeq(s, 1, Len(s) - 1))
            ELSE s

\* str.isdigit(): non-empty and every character a digit
isdigit(s) == s # <<>> /\ \A i \in 1..Len(s) : IsDecimal(s[i]) \/ s[i] = SuperscriptTwo

NoFile == [exists |-> FALSE, content |-> <<>>]

\* The statements of load_last_known_id_from_file (lines 1113-1117) and of
\* save_last_known_id_to_file (1132-1134), and the statements inside their
\* try ... except Exception (1112-1127, 1131-1137)
LoadStatements == <<"exists", "open", "read", "strip", "isdigit", "int">>

LoadTryBody == {"exists", "open", "read", "strip", "isdigit", "int"}

SaveStatements == <<"makedirs", "open", "write">>

SaveTryBody == {"makedirs", "open", "write"}

\* The statement of the load that raises, "none" when none does: reading a
\* file that cannot be read or decoded, or int() of a digit string that is
\* no decimal number
LoadRaisingStep(f, read_raises) ==
    IF ~f.exists THEN "none"
    ELSE IF read_raises THEN "read"
    ELSE IF isdigit(Strip(f.content)) /\ IntRaises(Strip(f.content)) THEN "int"
    ELSE "none"

\* An exception leaves load_last_known_id_from_file
LoadPropagates(f, read_raises) ==
    /\ LoadRaisingStep(f, read_raises) # "none"
    /\ LoadRaisingStep(f, read_raises) \notin LoadTryBody

\* load_last_known_id_from_file, the file being readable or not
LoadFrom(f, read_raises) ==
    IF LoadRaisingStep(f, read_raises) # "none" THEN None
    ELSE IF f.exists /\ isdigit(Strip(f.content)) THEN ParseInt(Strip(f.content))
    ELSE None

load_last_known_id_from_file(f) == LoadFrom(f, FALSE)

\* Outcomes of save_last_known_id_to_file: the write succeeds, or it raises
\* before the file is opened (file untouched), or it raises after open(..,'w')
\* truncated the file.  The exception is logged and swallowed in every case.
SaveOutcomes == {"ok", "untouched", "truncated"}

\* The statement of the save that raises under an outcome
SaveRaisingStep(outcome) ==
    CASE outcome = "ok" -> "none"
      [] outcome = "untouched" -> "makedirs"
      [] OTHER -> "write"

\* An exception leaves save_last_known_id_to_file
SavePropagates(outcome) ==
    /\ SaveRaisingStep(outcome) # "none"
    /\ SaveRaisingStep(outcome) \notin SaveTryBody

save_last_known_id_to_file(f, last_id, outcome) ==
    CASE outcome = "ok" -> [exists |-> TRUE, content |-> Str(last_id)]
      [] outcome = "untouched" -> f
      [] OTHER -> [exists |-> TRUE, content |-> <<>>]

\* get_initial_max_case_id: 0 when the connection or the query fails
get_initial_max_case_id(db, readable) == IF readable THEN Max(db) ELSE 0

\* Variant: WHERE primkey_case >= ? (the cursor row is fetched again)
get_new_cases_from_db_inclusive(db, last_id, readable) ==
    IF readable THEN SortAsc({r \in db : r >= last_id}) ELSE <<>>

\* Variant: ORDER BY primkey_case DESC
get_new_cases_from_db_desc(db, last_id, readable) ==
    IF readable THEN SortDesc({r \in db : r > last_id}) ELSE <<>>

\* Variant: a failed connection or query is not noticed
get_new_cases_from_db_unguarded(db, last_id, readable) ==
    SortAsc({r \in db : r > last_id})

\* get_new_cases_from_db: WHERE primkey_case > ? ORDER BY primkey_case ASC;
\* an unreadable source is logged and yields the empty list
get_new_cases_from_db(db, last_id, readable) ==
    IF readable THEN SortAsc({r \in db : r > last_id}) ELSE <<>>

\* Variant: the callback body is entered without taking the lock
CanAcquire_unlocked(holder, queue) == TRUE

\* asyncio.Lock.acquire fast path: not locked and nobody queued
CanAcquire(holder, queue) == holder = None /\ queue = <<>>

\* Variant: the bootstrap takes the maximum id of the table whatever the
\* cursor file holds
BootCursorOf_max(f, db, readable) == get_initial_max_case_id(db, readable)

\* __main__ lines 1428-1438: cursor of the session and cursor file after the
\* bootstrap, given the file and table found at start-up
BootCursorOf(f, db, readable) ==
    IF load_last_known_id_from_file(f) = None
    THEN get_initial_max_case_id(db, readable)
    ELSE load_last_known_id_from_file(f)

BootFileOf(f, db, readable, outcome) ==
    IF load_last_known_id_from_file(f) = None
    THEN save_last_known_id_to_file(f, get_initial_max_case_id(db, readable), outcome)
    ELSE f

\* The data source and the cursor file are touched by the bootstrap only when
\* the cursor file gave no value
BootReadable(f) == IF load_last_known_id_from_file(f) = None THEN BOOLEAN ELSE {TRUE}

BootOutcomes(f) == IF load_last_known_id_from_file(f) = None THEN SaveOutcomes ELSE {"ok"}

\* Variant: the callback body is entered by the call that schedules it
NewJob_running(due, ev) ==
    [pc |-> "fetch", due |-> due, ev |-> ev,
     last_known_id |-> 0, new_cases |-> <<>>, i |-> 0,
     max_id_in_batch |-> 0, successfully_processed_any_case |-> FALSE]

\* job record of a scheduled process_db_changes_callback
NewJob(due, ev) ==
    [pc |-> "scheduled", due |-> due, ev |-> ev,
     last_known_id |-> 0, new_cases |-> <<>>, i |-> 0,
     max_id_in_batch |-> 0, successfully_processed_any_case |-> FALSE]

InitialSync == 0    \* job name="initial_db_sync"

\* job_queue.run_once(callback, when=delay) called at time t
run_once(q, id, t, delay) ==
    [j \in DOMAIN q \cup {id} |->
        IF j = id THEN NewJob(t + delay, t) ELSE q[j]]

EmptyQueue == [j \in {} |-> NewJob(0, 0)]

Remove(q, id) == [j \in DOMAIN q \ {id} |-> q[j]]

InBody(j) == jobs[j].pc \in {"fetch", "loop", "sending"}

Delivered == {sendLog[k][1] : k \in {n \in 1..Len(sendLog) : sendLog[n][2]}}

\* Variant: an event exactly DB_PROCESSING_DELAY after the last accepted one
\* is dropped too
TooSoon_inclusive(current_time, last) == current_time - last <= DB_PROCESSING_DELAY

\* Variant: no debounce, every event is accepted
TooSoon_never(current_time, last) == FALSE

\* Debounce test of on_modified (line 1302)
TooSoon(current_time, last) == current_time - last < DB_PROCESSING_DELAY

\* Variant: the scan is scheduled one second short of the debounce delay
ScanDelay_short == DB_PROCESSING_DELAY - 1

\* Delay passed to job_queue.run_once by on_modified (line 1311)
ScanDelay == DB_PROCESSING_DELAY

\* Observation of the stream of on_modified calls of this lifetime: their
\* number n, the number sched of scans they scheduled, the times of the first
\* and of the latest call, whether all calls so far lie within one debounce
\* window of the first (within) and whether every call came more than
\* DB_PROCESSING_DELAY after the previous one (spaced).  A stream that is of
\* neither shape, or longer than MaxBurst, is no longer observed.
NoEvents ==
    [n |-> 0, sched |-> 0, first |-> 0, last |-> 0, within |-> TRUE, spaced |-> TRUE]

MixedEvents ==
    [n |-> 0, sched |-> 0, first |-> 0, last |-> 0, within |-> FALSE, spaced |-> FALSE]

Observe(h, t, accepted) ==
    LET w == h.within /\ (h.n = 0 \/ t - h.first < DB_PROCESSING_DELAY)
        sp == h.spaced /\ (h.n = 0 \/ t - h.last > DB_PROCESSING_DELAY)
    IN IF (w \/ sp) /\ h.n < MaxBurst
       THEN [n |-> h.n + 1, sched |-> h.sched + (IF accepted THEN 1 ELSE 0),
             first |-> IF h.n = 0 THEN t ELSE h.first,
             last |-> t, within |-> w, spaced |-> sp]
       ELSE MixedEvents

\* =================================================================== codec
\* Text is a sequence of Unicode code points, bytes are numbers 0..255.
\* The ticket protocol: json.dumps -> str.encode('utf-8') -> base64.b64encode
\* when a message is composed, and re.search -> base64.b64decode ->
\* bytes.decode('utf-8') -> json.loads when the print action reads it back.

\* Result of a step that may raise: ok and a value, or not ok.
Ok(v) == [ok |-> TRUE, val |-> v]

Raised == [ok |-> FALSE, val |-> <<>>]

\* str.encode('utf-8') of one code point; a surrogate code point raises
Utf8Of(c) ==
    IF c < 128 THEN <<c>>
    ELSE IF c < 2048 THEN <<192 + (c \div 64), 128 + (c % 64)>>
    ELSE IF c < 65536
    THEN <<224 + (c \div 4096), 128 + ((c \div 64) % 64), 128 + (c % 64)>>
    ELSE <<240 + (c \div 262144), 128 + ((c \div 4096) % 64),
           128 + ((c \div 64) % 64), 128 + (c % 64)>>

IsSurrogate(c) == c >= 55296 /\ c <= 57343

\* ''.join of a sequence of strings, by halves
RECURSIVE Concat(_)
Concat(parts) ==
    IF parts = <<>> THEN <<>>
    ELSE IF Len(parts) = 1 THEN parts[1]
    ELSE Concat(SubSeq(parts, 1, Len(parts) \div 2))
            \o Concat(SubSeq(parts, (Len(parts) \div 2) + 1, Len(parts)))

Utf8Bytes(s) == Concat([i \in 1..Len(s) |-> Utf8Of(s[i])])

\* json_string.encode('utf-8')
utf8_encode(s) ==
    IF \E i \in 1..Len(s) : IsSurrogate(s[i]) THEN Raised ELSE Ok(Utf8Bytes(s))

IsCont(b, i) == i <= Len(b) /\ b[i] >= 128 /\ b[i] <= 191

\* bytes of the sequence a lead byte announces, 0 for a byte that cannot lead
Utf8Width(lead) ==
    IF lead < 128 THEN 1
    ELSE IF lead >= 194 /\ lead <= 223 THEN 2
    ELSE IF lead >= 224 /\ lead <= 239 THEN 3
    ELSE IF lead >= 240 /\ lead <= 244 THEN 4 ELSE 0

\* code point of the sequence of w bytes that starts at b[i]
Utf8CodePoint(b, i, w) ==
    CASE w = 1 -> b[i]
      [] w = 2 -> (b[i] - 192) * 64 + (b[i + 1] - 128)
      [] w = 3 -> (b[i] - 224) * 4096 + (b[i + 1] - 128) * 64 + (b[i + 2] - 128)
      [] OTHER -> (b[i] - 240) * 262144 + (b[i + 1] - 128) * 4096
                     + (b[i + 2] - 128) * 64 + (b[i + 3] - 128)

\* the sequence starting at the lead byte b[i] is complete, is followed by a
\* lead byte or the end, and is neither overlong nor a surrogate nor above
\* U+10FFFF
Utf8SequenceOk(b, i) ==
    LET w == Utf8Width(b[i])
    IN /\ w > 0
       /\ \A k \in 1..(w - 1) : IsCont(b, i + k)
       /\ ~IsCont(b, i + w)
       /\ w = 3 => (Utf8CodePoint(b, i, w) >= 2048 /\ ~IsSurrogate(Utf8CodePoint(b, i, w)))
       /\ w = 4 => (Utf8CodePoint(b, i, w) >= 65536 /\ Utf8CodePoint(b, i, w) <= 1114111)

\* payload_bytes.decode("utf-8"), strict: truncated, overlong and surrogate
\* sequences raise UnicodeDecodeError
utf8_decode(b) ==
    LET IsLeadAt(i) == ~IsCont(b, i)
        leads == SelectSeq([i \in 1..Len(b) |-> i], IsLeadAt)
    IN IF /\ b # <<>> => IsLeadAt(1)
          /\ \A k \in 1..Len(leads) : Utf8SequenceOk(b, leads[k])
       THEN Ok([k \in 1..Len(leads) |->
                   Utf8CodePoint(b, leads[k], Utf8Width(b[leads[k]]))])
       ELSE Raised

\* The base64 alphabet: A-Z a-z 0-9 + /
B64Char(v) ==
    IF v < 26 THEN 65 + v
    ELSE IF v < 52 THEN 97 + (v - 26)
    ELSE IF v < 62 THEN 48 + (v - 52)
    ELSE IF v = 62 THEN 43 ELSE 47

\* value of an alphabet character, 64 for any other character
B64Val(c) ==
    IF c >= 65 /\ c <= 90 THEN c - 65
    ELSE IF c >= 97 /\ c <= 122 THEN c - 97 + 26
    ELSE IF c >= 48 /\ c <= 57 THEN c - 48 + 52
    ELSE IF c = 43 THEN 62
    ELSE IF c = 47 THEN 63 ELSE 64

BASE64_PAD == 61

\* base64.b64encode: every 3 bytes give 4 characters, the last group padded
b64encode(b) ==
    LET Byte(i) == IF i <= Len(b) THEN b[i] ELSE 0
        Char(k) ==
            LET g == 3 * ((k - 1) \div 4)
            IN CASE (k - 1) % 4 = 0 -> B64Char(Byte(g + 1) \div 4)
                 [] (k - 1) % 4 = 1 ->
                       B64Char((Byte(g + 1) % 4) * 16 + (Byte(g + 2) \div 16))
                 [] (k - 1) % 4 = 2 ->
                       IF g + 2 > Len(b) THEN BASE64_PAD
                       ELSE B64Char((Byte(g + 2) % 16) * 4 + (Byte(g + 3) \div 64))
                 [] OTHER ->
                       IF g + 3 > Len(b) THEN BASE64_PAD ELSE B64Char(Byte(g + 3) % 64)
    IN [k \in 1..(4 * ((Len(b) + 2) \div 3)) |-> Char(k)]

IsB64Data(c) == B64Val(c) < 64

\* base64.b64decode(s) with validate=False (binascii.a2b_base64): characters
\* outside the alphabet are skipped; a pad character that completes the
\* padding of a quad (the first one after 3 data characters, the second one
\* after 2) ends the input; data that ends inside a quad raises
\* binascii.Error
b64decode(s) ==
    LET DataBefore(i) == SelectSeq(SubSeq(s, 1, i - 1), IsB64Data)
        PadBefore(i) ==
            \E k \in 1..(i - 1) :
                s[k] = BASE64_PAD /\ \A m \in (k + 1)..(i - 1) : ~IsB64Data(s[m])
        Ends(i) ==
            /\ s[i] = BASE64_PAD
            /\ \/ Len(DataBefore(i)) % 4 = 3
               \/ Len(DataBefore(i)) % 4 = 2 /\ PadBefore(i)
        stop == IF \E i \in 1..Len(s) : Ends(i)
                THEN CHOOSE i \in 1..Len(s) : Ends(i) /\ \A k \in 1..(i - 1) : ~Ends(k)
                ELSE Len(s) + 1
        v == [k \in 1..Len(DataBefore(stop)) |-> B64Val(DataBefore(stop)[k])]
        Byte(j) ==
            LET q == 4 * ((j - 1) \div 3)
            IN CASE (j - 1) % 3 = 0 -> v[q + 1] * 4 + (v[q + 2] \div 16)
                 [] (j - 1) % 3 = 1 -> (v[q + 2] % 16) * 16 + (v[q + 3] \div 4)
                 [] OTHER -> (v[q + 3] % 4) * 64 + v[q + 4]
    IN IF stop > Len(s) /\ Len(v) % 4 # 0 THEN Raised
       ELSE Ok([j \in 1..((Len(v) * 6) \div 8) |-> Byte(j)])

\* ------------------------------------------------------------------ JSON
HexChar(v) == IF v < 10 THEN 48 + v ELSE 97 + (v - 10)

\* value of a hexadecimal digit, 16 for any other character
HexVal(c) ==
    IF c >= 48 /\ c <= 57 THEN c - 48
    ELSE IF c >= 97 /\ c <= 102 THEN c - 97 + 10
    ELSE IF c >= 65 /\ c <= 70 THEN c - 65 + 10 ELSE 16

\* '\\u{0:04x}'
UEscape(n) ==
    <<92, 117, HexChar(n \div 4096), HexChar((n \div 256) % 16),
      HexChar((n \div 16) % 16), HexChar(n % 16)>>

\* Variant: no character is escaped
EscapeChar_raw(c, ensure_ascii) == <<c>>

\* json.encoder: one character of a string.  '"' and '\' and the control
\* characters are always escaped; with ensure_ascii every character outside
\* ' '..'~' is written as \uXXXX, as a surrogate pair above U+FFFF.
EscapeChar(c, ensure_ascii) ==
    CASE c = 34 -> <<92, 34>>
      [] c = 92 -> <<92, 92>>
      [] c = 10 -> <<92, 110>>
      [] c = 13 -> <<92, 114>>
      [] c = 9 -> <<92, 116>>
      [] c = 8 -> <<92, 98>>
      [] c = 12 -> <<92, 102>>
      [] OTHER ->
            IF c < 32 THEN UEscape(c)
            ELSE IF c <= 126 \/ ~ensure_ascii THEN <<c>>
            ELSE IF c < 65536 THEN UEscape(c)
            ELSE UEscape(55296 + ((c - 65536) \div 1024))
                    \o UEscape(56320 + ((c - 65536) % 1024))

EscapeChars(s, ensure_ascii) ==
    Concat([i \in 1..Len(s) |-> EscapeChar(s[i], ensure_ascii)])

encode_string(s, ensure_ascii) == <<34>> \o EscapeChars(s, ensure_ascii) \o <<34>>

\* A dict is the sequence of its <<key, value>> items in insertion order.
RECURSIVE DumpItems(_, _)
DumpItems(items, ensure_ascii) ==
    IF items = <<>> THEN <<>>
    ELSE encode_string(items[1][1], ensure_ascii) \o <<58>>
            \o encode_string(items[1][2], ensure_ascii)
            \o (IF Len(items) > 1 THEN <<44>> ELSE <<>>)
            \o DumpItems(Tail(items), ensure_ascii)

\* json.dumps(d, separators=(',', ':'), ensure_ascii=...) of a dict of strings
json_dumps(items, ensure_ascii) == <<123>> \o DumpItems(items, ensure_ascii) \o <<125>>

\* Result of scanning from a position: ok, value, position after it
Scanned(v, next) == [ok |-> TRUE, val |-> v, next |-> next]

NotScanned == [ok |-> FALSE, val |-> <<>>, next |-> 0]

At(s, i, c) == i <= Len(s) /\ s[i] = c

IsHex4(s, i) == i + 3 <= Len(s) /\ \A k \in i..(i + 3) : HexVal(s[k]) < 16

Hex4(s, i) ==
    HexVal(s[i]) * 4096 + HexVal(s[i + 1]) * 256 + HexVal(s[i + 2]) * 16 + HexVal(s[i + 3])

\* json.decoder scanstring (strict): s[i] is the first character after the
\* opening quote
RECURSIVE scanstring(_, _, _)
scanstring(s, i, acc) ==
    IF i > Len(s) THEN NotScanned
    ELSE IF s[i] = 34 THEN Scanned(acc, i + 1)
    ELSE IF s[i] < 32 THEN NotScanned
    ELSE IF s[i] # 92 THEN scanstring(s, i + 1, Append(acc, s[i]))
    ELSE IF i + 1 > Len(s) THEN NotScanned
    ELSE CASE s[i + 1] = 34 -> scanstring(s, i + 2, Append(acc, 34))
           [] s[i + 1] = 92 -> scanstring(s, i + 2, Append(acc, 92))
           [] s[i + 1] = 47 -> scanstring(s, i + 2, Append(acc, 47))
           [] s[i + 1] = 98 -> scanstring(s, i + 2, Append(acc, 8))
           [] s[i + 1] = 102 -> scanstring(s, i + 2, Append(acc, 12))
           [] s[i + 1] = 110 -> scanstring(s, i + 2, Append(acc, 10))
           [] s[i + 1] = 114 -> scanstring(s, i + 2, Append(acc, 13))
           [] s[i + 1] = 116 -> scanstring(s, i + 2, Append(acc, 9))
           [] s[i + 1] = 117 ->
                 IF ~IsHex4(s, i + 2) THEN NotScanned
                 ELSE LET uni == Hex4(s, i + 2)
                      IN IF /\ uni >= 55296 /\ uni <= 56319
                            /\ At(s, i + 6, 92) /\ At(s, i + 7, 117)
                            /\ IsHex4(s, i + 8)
                            /\ Hex4(s, i + 8) >= 56320 /\ Hex4(s, i + 8) <= 57343
                         THEN scanstring(s, i + 12,
                                 Append(acc, 65536 + (uni - 55296) * 1024
                                                + (Hex4(s, i + 8) - 56320)))
                         ELSE scanstring(s, i + 6, Append(acc, uni))
           [] OTHER -> NotScanned

\* text[p:p + len(lit)] == lit
MatchesAt(text, p, lit) ==
    p + Len(lit) - 1 <= Len(text) /\ SubSeq(text, p, p + Len(lit) - 1) = lit

\* A decoded JSON value: its Python type, the text of a str, number or
\* literal, and the items of a list (values) or of a dict (<<key, value>>
\* pairs in insertion order)
JVal(t, str, items) == [t |-> t, s |-> str, items |-> items]

JStr(str) == JVal("str", str, <<>>)

JNum(repr) == JVal("num", repr, <<>>)

JLit(name) == JVal("lit", name, <<>>)

JArr(items) == JVal("list", <<>>, items)

JObj(items) == JVal("dict", <<>>, items)

\* the dict of strings given by its <<key, value>> items
JDict(items) == JObj([k \in DOMAIN items |-> <<items[k][1], JStr(items[k][2])>>])

\* "null", "true", "false", "NaN", "Infinity", "-Infinity"
NullLit == <<110, 117, 108, 108>>

TrueLit == <<116, 114, 117, 101>>

FalseLit == <<102, 97, 108, 115, 101>>

NaNLit == <<78, 97, 78>>

InfinityLit == <<73, 110, 102, 105, 110, 105, 116, 121>>

Python_None == JLit(NullLit)

\* json.encoder with separators (',', ':'): a value as text
RECURSIVE dumps_value(_, _)
dumps_value(v, ensure_ascii) ==
    CASE v.t = "str" -> encode_string(v.s, ensure_ascii)
      [] v.t \in {"num", "lit"} -> v.s
      [] v.t = "list" ->
            <<91>> \o Concat([k \in DOMAIN v.items |->
                                (IF k > 1 THEN <<44>> ELSE <<>>)
                                   \o dumps_value(v.items[k], ensure_ascii)])
                   \o <<93>>
      [] v.t = "dict" ->
            <<123>> \o Concat([k \in DOMAIN v.items |->
                                 (IF k > 1 THEN <<44>> ELSE <<>>)
                                    \o encode_string(v.items[k][1], ensure_ascii) \o <<58>>
                                    \o dumps_value(v.items[k][2], ensure_ascii)])
                    \o <<125>>

\* json.decoder WHITESPACE
IsJsonSpace(c) == c \in {32, 9, 10, 13}

\* end of the whitespace that starts at position i
SkipWs(s, i) ==
    CHOOSE q \in i..(Len(s) + 1) :
        /\ q = Len(s) + 1 \/ ~IsJsonSpace(s[q])
        /\ \A k \in i..(q - 1) : IsJsonSpace(s[k])

\* end of the run of decimal digits that starts at position i
DigitsEnd(s, i) ==
    CHOOSE q \in i..(Len(s) + 1) :
        /\ q = Len(s) + 1 \/ s[q] \notin 48..57
        /\ \A k \in i..(q - 1) : s[k] \in 48..57

\* json.scanner NUMBER_RE, (-?(?:0|[1-9]\d*))(\.\d+)?([eE][-+]?\d+)?, matched
\* at position i: the position after the match, 0 when there is none
NumberEnd(s, i) ==
    LET a == IF At(s, i, 45) THEN i + 1 ELSE i
        intEnd == IF At(s, a, 48) THEN a + 1
                  ELSE IF a <= Len(s) /\ s[a] \in 49..57 THEN DigitsEnd(s, a)
                  ELSE 0
        fracEnd == IF At(s, intEnd, 46) /\ DigitsEnd(s, intEnd + 1) > intEnd + 1
                   THEN DigitsEnd(s, intEnd + 1) ELSE intEnd
        expDigits == IF At(s, fracEnd + 1, 43) \/ At(s, fracEnd + 1, 45)
                     THEN fracEnd + 2 ELSE fracEnd + 1
        expEnd == IF (At(s, fracEnd, 101) \/ At(s, fracEnd, 69))
                        /\ DigitsEnd(s, expDigits) > expDigits
                  THEN DigitsEnd(s, expDigits) ELSE fracEnd
    IN IF intEnd = 0 THEN 0 ELSE expEnd

\* dict[key] = value
DictSet(items, key, v) ==
    IF \E k \in DOMAIN items : items[k][1] = key
    THEN [k \in DOMAIN items |-> IF items[k][1] = key THEN <<key, v>> ELSE items[k]]
    ELSE Append(items, <<key, v>>)

\* json.scanner scan_once at position i, json.decoder JSONObject from the
\* opening quote of a key on, and JSONArray from the first character of an
\* element on
RECURSIVE scan_once(_, _)
RECURSIVE JSONObject(_, _, _)
RECURSIVE JSONArray(_, _, _)
scan_once(s, i) ==
    IF i > Len(s) THEN NotScanned
    ELSE IF s[i] = 34
    THEN LET str == scanstring(s, i + 1, <<>>)
         IN IF str.ok THEN Scanned(JStr(str.val), str.next) ELSE NotScanned
    ELSE IF s[i] = 123
    THEN LET j == SkipWs(s, i + 1)
         IN IF At(s, j, 125) THEN Scanned(JObj(<<>>), j + 1)
            ELSE IF At(s, j, 34) THEN JSONObject(s, j, <<>>)
            ELSE NotScanned
    ELSE IF s[i] = 91
    THEN LET j == SkipWs(s, i + 1)
         IN IF At(s, j, 93) THEN Scanned(JArr(<<>>), j + 1)
            ELSE JSONArray(s, j, <<>>)
    ELSE IF MatchesAt(s, i, NullLit) THEN Scanned(JLit(NullLit), i + 4)
    ELSE IF MatchesAt(s, i, TrueLit) THEN Scanned(JLit(TrueLit), i + 4)
    ELSE IF MatchesAt(s, i, FalseLit) THEN Scanned(JLit(FalseLit), i + 5)
    ELSE IF NumberEnd(s, i) # 0
    THEN Scanned(JNum(SubSeq(s, i, NumberEnd(s, i) - 1)), NumberEnd(s, i))
    ELSE IF MatchesAt(s, i, NaNLit) THEN Scanned(JNum(NaNLit), i + 3)
    ELSE IF MatchesAt(s, i, InfinityLit) THEN Scanned(JNum(InfinityLit), i + 8)
    ELSE IF MatchesAt(s, i, <<45>> \o InfinityLit)
    THEN Scanned(JNum(<<45>> \o InfinityLit), i + 9)
    ELSE NotScanned

JSONObject(s, i, acc) ==
    LET key == scanstring(s, i + 1, <<>>)
    IN IF ~key.ok THEN NotScanned
       ELSE LET colon == SkipWs(s, key.next)
            IN IF ~At(s, colon, 58) THEN NotScanned
               ELSE LET value == scan_once(s, SkipWs(s, colon + 1))
                    IN IF ~value.ok THEN NotScanned
                       ELSE LET e == SkipWs(s, value.next)
                                items == DictSet(acc, key.val, value.val)
                            IN IF At(s, e, 125) THEN Scanned(JObj(items), e + 1)
                               ELSE IF ~At(s, e, 44) THEN NotScanned
                               ELSE IF ~At(s, SkipWs(s, e + 1), 34) THEN NotScanned
                               ELSE JSONObject(s, SkipWs(s, e + 1), items)

JSONArray(s, i, acc) ==
    LET value == scan_once(s, i)
    IN IF ~value.ok THEN NotScanned
       ELSE LET e == SkipWs(s, value.next)
            IN IF At(s, e, 93) THEN Scanned(JArr(Append(acc, value.val)), e + 1)
               ELSE IF ~At(s, e, 44) THEN NotScanned
               ELSE JSONArray(s, SkipWs(s, e + 1), Append(acc, value.val))

\* json.loads: the value of the one JSON document the text holds; a text
\* that is not one raises
json_loads(s) ==
    LET obj == scan_once(s, SkipWs(s, 1))
    IN IF ~obj.ok THEN Raised
       ELSE IF SkipWs(s, obj.next) # Len(s) + 1 THEN Raised
       ELSE Ok(obj.val)

\* ------------------------------------------------------ message texts
\* String literals of the source, as code points.
\* line 63: "Encoded Data:"
TICKETS_DATA_MARKER ==
    <<69, 110, 99, 111, 100, 101, 100, 32, 68, 97, 116, 97, 58>>

\* line 64: "Calculator Encoded Data:"
CALC_DATA_MARKER ==
    <<67, 97, 108, 99, 117, 108, 97, 116, 111, 114, 32, 69, 110, 99, 111,
    100, 101, 100, 32, 68, 97, 116, 97, 58>>

\* first line of both messages, up to the "!"
CreatedLit ==
    <<9989, 32, 1047, 1072, 1103, 1074, 1082, 1072, 32, 1089, 1086, 1079,
    1076, 1072, 1085, 1072, 33>>

\* DB message only: " (...DB details, No. "
FromDbLit ==
    <<32, 40, 1044, 1077, 1090, 1072, 1083, 1080, 32, 1080, 1079, 32, 1041,
    1044, 44, 32, 8470, 32>>

\* two newlines and the sender label
SenderLit ==
    <<10, 10, 128100, 32, 1054, 1090, 1087, 1088, 1072, 1074, 1080, 1083, 40,
    1072, 41, 58, 32>>

\* newline and the time label
TimeLit ==
    <<10, 128338, 32, 1042, 1088, 1077, 1084, 1103, 58, 32>>

\* the details rule and the phone label
PhoneLit ==
    <<10, 45, 45, 45, 32, 1044, 1077, 1090, 1072, 1083, 1080, 32, 1079, 1072,
    1103, 1074, 1082, 1080, 32, 45, 45, 45, 10, 128222, 32, 1058, 1077, 1083,
    1077, 1092, 1086, 1085, 58, 32>>

\* newline and the description label
DescriptionLit ==
    <<10, 128221, 32, 1054, 1087, 1080, 1089, 1072, 1085, 1080, 1077, 58, 32>>

\* DB message only: the client label
ClientLit ==
    <<128100, 32, 1050, 1083, 1080, 1077, 1085, 1090, 58, 32>>

\* 'N/A'
NA ==
    <<78, 47, 65>>

\* '<b><code>'
BoldOpen ==
    <<60, 98, 62, 60, 99, 111, 100, 101, 62>>

\* '</code></b>'
BoldClose ==
    <<60, 47, 99, 111, 100, 101, 62, 60, 47, 98, 62>>

\* '<a href="tel:'
AnchorOpen ==
    <<60, 97, 32, 104, 114, 101, 102, 61, 34, 116, 101, 108, 58>>

\* '">'
AnchorMid ==
    <<34, 62>>

\* '</a>'
AnchorClose ==
    <<60, 47, 97, 62>>

IsAsciiDigit(c) == c >= 48 /\ c <= 57

\* re.sub(r'[^\d+]', '', phone_str), for ASCII input
CleanPhone(s) ==
    LET Kept(c) == IsAsciiDigit(c) \/ c = 43
    IN SelectSeq(s, Kept)

StartsWith(s, prefix) == Len(s) >= Len(prefix) /\ SubSeq(s, 1, Len(prefix)) = prefix

format_phone_number_display(phone_str) ==
    IF phone_str = <<>> \/ phone_str = NA THEN NA
    ELSE LET c == CleanPhone(phone_str)
         IN IF StartsWith(c, <<43, 55>>) /\ Len(c) = 12
            THEN SubSeq(c, 1, 2) \o <<32, 40>> \o SubSeq(c, 3, 5) \o <<41, 32>>
                    \o SubSeq(c, 6, 8) \o <<45>> \o SubSeq(c, 9, 10) \o <<45>> \o SubSeq(c, 11, 12)
            ELSE IF StartsWith(c, <<56>>) /\ Len(c) = 11
            THEN SubSeq(c, 1, 1) \o <<32, 40>> \o SubSeq(c, 2, 4) \o <<41, 32>>
                    \o SubSeq(c, 5, 7) \o <<45>> \o SubSeq(c, 8, 9) \o <<45>> \o SubSeq(c, 10, 11)
            ELSE phone_str

\* tel_url_number of lines 243-248 (form) and 1174-1181 (data source, which
\* also takes an 11-digit number starting with 7); <<>> stands for None
tel_url_number(raw_phone, from_db) ==
    IF raw_phone = <<>> \/ raw_phone = NA THEN <<>>
    ELSE IF StartsWith(raw_phone, <<43, 55>>) /\ Len(raw_phone) = 12 THEN raw_phone
    ELSE IF StartsWith(raw_phone, <<56>>) /\ Len(raw_phone) = 11
    THEN <<43, 55>> \o Tail(raw_phone)
    ELSE IF from_db /\ StartsWith(raw_phone, <<55>>) /\ Len(raw_phone) = 11
    THEN <<43>> \o raw_phone
    ELSE <<>>

phone_link_html(raw_phone, from_db) ==
    LET shown == BoldOpen \o format_phone_number_display(raw_phone) \o BoldClose
    IN IF tel_url_number(raw_phone, from_db) = <<>> THEN shown
       ELSE AnchorOpen \o tel_url_number(raw_phone, from_db) \o AnchorMid
                \o shown \o AnchorClose

\* ticket_details_to_encode: {'p': .., 'd': .., 's': .., 't': ..}
ticket_details_to_encode(ticket) ==
    <<<<<<112>>, ticket.p>>, <<<<100>>, ticket.d>>,
      <<<<115>>, ticket.s>>, <<<<116>>, ticket.t>>>>

\* repr of a bytes value
BytesRepr(b) ==
    LET quote == IF (\E k \in DOMAIN b : b[k] = 39) /\ ~(\E k \in DOMAIN b : b[k] = 34)
                 THEN 34 ELSE 39
        One(c) == CASE c = 9 -> <<92, 116>>
                    [] c = 10 -> <<92, 110>>
                    [] c = 13 -> <<92, 114>>
                    [] c = 92 -> <<92, 92>>
                    [] c = quote -> <<92, c>>
                    [] OTHER -> IF c >= 32 /\ c <= 126 THEN <<c>>
                                ELSE <<92, 120, HexChar(c \div 16), HexChar(c % 16)>>
    IN <<98, quote>> \o Concat([k \in DOMAIN b |-> One(b[k])]) \o <<quote>>

\* f"{user_identifier}": the submitter as the message shows it.  The form
\* path has a str; the data-source path has what the row holds, a str or, for
\* a BLOB column value, bytes.
ShownSubmitter(ticket) ==
    IF ticket.s_type = "str" THEN ticket.s ELSE BytesRepr(ticket.s)

\* base64.b64encode(json_string.encode('utf-8')).decode('utf-8'), or raised:
\* json.dumps raises TypeError on a bytes value, str.encode on a surrogate
base64_encoded_json(ticket, ensure_ascii) ==
    LET payload == utf8_encode(json_dumps(ticket_details_to_encode(ticket), ensure_ascii))
    IN IF ticket.s_type # "str" THEN Raised
       ELSE IF payload.ok THEN Ok(b64encode(payload.val)) ELSE Raised

MarkerLine(token) == TICKETS_DATA_MARKER \o <<32>> \o token \o <<10, 10>>

\* process_ticket_app_data lines 257-296: channel_message_text; an encoding
\* error ends the handler without a message
channel_message_text(ticket) ==
    LET token == base64_encoded_json(ticket, TRUE)
    IN IF ~token.ok THEN Raised
       ELSE Ok(CreatedLit \o SenderLit \o ShownSubmitter(ticket) \o TimeLit \o ticket.t
                 \o PhoneLit \o phone_link_html(ticket.p, FALSE)
                 \o DescriptionLit \o ticket.d \o <<10, 10>>
                 \o MarkerLine(token.val))

\* process_and_send_db_case lines 1219-1266: message_text; when encoding
\* fails the message carries no marker line
db_message_text(ticket, case_id_display, client_name_db) ==
    LET token == base64_encoded_json(ticket, FALSE)
    IN CreatedLit \o FromDbLit \o case_id_display \o <<41>>
          \o SenderLit \o ShownSubmitter(ticket) \o TimeLit \o ticket.t
          \o PhoneLit \o phone_link_html(ticket.p, TRUE)
          \o DescriptionLit \o ticket.d \o <<10>>
          \o (IF client_name_db # NA THEN ClientLit \o client_name_db \o <<10, 10>>
              ELSE <<10>>)
          \o (IF token.ok /\ token.val # <<>> THEN MarkerLine(token.val) ELSE <<>>)

\* ------------------------------------------------------------- decoding
\* \s of the re module for str patterns (the characters str.isspace accepts
\* below U+0100)
IsSpace(c) == c \in {9, 10, 11, 12, 13, 28, 29, 30, 31, 32, 133, 160}

\* first position from p on that does not hold a whitespace character
SkipSpace(text, p) ==
    CHOOSE q \in p..(Len(text) + 1) :
        /\ q = Len(text) + 1 \/ ~IsSpace(text[q])
        /\ \A k \in p..(q - 1) : IsSpace(text[k])

\* first position from p on that holds a newline, or Len(text) + 1
LineEnd(text, p) ==
    CHOOSE q \in p..(Len(text) + 1) :
        /\ q = Len(text) + 1 \/ text[q] = 10
        /\ \A k \in p..(q - 1) : text[k] # 10

\* '^' under re.MULTILINE
AtLineStart(text, p) == p = 1 \/ text[p - 1] = 10

\* The pattern ^<marker>\s+(.*)$ tried at position p: the marker at a line
\* start, a longest run of at least one whitespace character (which may run
\* over newlines), then the rest of that line as group 1
MatchAt(text, p, marker) ==
    /\ AtLineStart(text, p)
    /\ MatchesAt(text, p, marker)
    /\ SkipSpace(text, p + Len(marker)) > p + Len(marker)

\* re.search(rf"^{re.escape(marker)}\s+(.*)$", text, re.MULTILINE): group 1
\* of the leftmost match, or no match
re_search(text, marker) ==
    IF \E p \in 1..Len(text) : MatchAt(text, p, marker)
    THEN LET p == CHOOSE q \in 1..Len(text) :
                      /\ MatchAt(text, q, marker)
                      /\ \A r \in 1..(q - 1) : ~MatchAt(text, r, marker)
             from == SkipSpace(text, p + Len(marker))
         IN Ok(SubSeq(text, from, LineEnd(text, from) - 1))
    ELSE Raised

\* line 571: json.loads(payload_str), reached when bytes.decode gave a str
LoadsPayload(payload_str) ==
    IF ~payload_str.ok THEN Raised ELSE json_loads(payload_str.val)

\* line 570: payload_bytes.decode("utf-8"), reached when b64decode gave bytes
DecodeBytes(payload_bytes) ==
    IF ~payload_bytes.ok THEN Raised ELSE LoadsPayload(utf8_decode(payload_bytes.val))

\* lines 566-575 of _parse_ticket_data: the decoding of group 1; any
\* exception is caught and gives None
DecodePayload(payload_b64) == DecodeBytes(b64decode(payload_b64))

\* line 572: a payload that holds the JSON null is returned as None, which
\* the caller cannot tell from a failure
Returned(data) == IF data.ok /\ data.val = Python_None THEN Raised ELSE data

\* lines 565-575: no marker line gives None, else the try body
ParseMatch(match) == IF ~match.ok THEN Raised ELSE Returned(DecodePayload(match.val))

\* The body shared by _parse_ticket_data and _parse_calculator_data: the
\* decoded value, or None (Raised) when the text is empty, has no marker
\* line, or its payload does not decode.
ParseMarkerData(message_text, marker) ==
    IF message_text = <<>> THEN Raised ELSE ParseMatch(re_search(message_text, marker))

_parse_ticket_data(message_text) == ParseMarkerData(message_text, TICKETS_DATA_MARKER)

_parse_calculator_data(message_text) == ParseMarkerData(message_text, CALC_DATA_MARKER)

\* TICKETS_DATA_MARKER in query.message.text
Contains(text, lit) == \E p \in 1..Len(text) : MatchesAt(text, p, lit)

MSG_GENERATING == "printer emoji"

MSG_ERR_NO_DATA == "Ticket data not found in the message."

MSG_ERR_DECODE == "Failed to decode ticket data."

MSG_ERR_GENERIC == "An error occurred while generating the label."

LabelFromTicket == "_generate_ticket_label_image(ticket_data)"

\* bool(v) of a value
Truthy(v) ==
    CASE v.t \in {"str", "bytes"} -> v.s # <<>>
      [] v.t = "num" ->
            \E k \in DOMAIN v.s :
                /\ v.s[k] \in 49..57 \/ v.s[k] \in {78, 73}
                /\ \A j \in 1..(k - 1) : v.s[j] \notin {101, 69}
      [] v.t = "lit" -> v.s = TrueLit
      [] OTHER -> v.items # <<>>

HasKey(v, key) == \E k \in DOMAIN v.items : v.items[k][1] = key

\* ticket.get(key, default) of a dict
DictGet(v, key, default) ==
    IF HasKey(v, key)
    THEN v.items[CHOOSE k \in DOMAIN v.items : v.items[k][1] = key][2]
    ELSE default

\* The keys of a ticket: "p", "d", "s", "t"
KeyP == <<112>>

KeyD == <<100>>

KeyS == <<115>>

KeyT == <<116>>

\* _generate_ticket_label_image and _save_label_image on the decoded value:
\* whether an exception leaves them.  A value that is not a dict has no
\* get; textwrap.wrap, re.sub and str.replace need a str for "d", "s" and
\* "t"; format_phone_number_display needs a str for a "p" that is not falsy.
LabelRaises(ticket) ==
    \/ ticket.t # "dict"
    \/ DictGet(ticket, KeyD, JStr(<<>>)).t # "str"
    \/ DictGet(ticket, KeyS, JStr(NA)).t # "str"
    \/ DictGet(ticket, KeyT, JStr(NA)).t # "str"
    \/ /\ DictGet(ticket, KeyP, JStr(NA)).t # "str"
       /\ Truthy(DictGet(ticket, KeyP, JStr(NA)))

\* The fields of the label that come from a default of ticket.get, not
\* from the decoded dict
DefaultedFields(ticket) == {key \in {KeyP, KeyD, KeyS, KeyT} : ~HasKey(ticket, key)}

\* handle_ticket_print_callback lines 863-905: what the action does with the
\* text of the message the button sits on
ReplyFor(text, ticket_data) ==
    IF ~ticket_data.ok
    THEN IF text = <<>> \/ ~Contains(text, TICKETS_DATA_MARKER)
         THEN MSG_ERR_NO_DATA
         ELSE MSG_ERR_DECODE
    ELSE IF LabelRaises(ticket_data.val) THEN MSG_ERR_GENERIC
    ELSE LabelFromTicket

LabelFromCalculator == "_generate_calculator_label_image(calculator_data)"

UnhandledTypeError == "TypeError"

\* handle_calculator_print_callback lines 939-946: the reply when no data
\* was decoded.  The log line 944 slices query.message.text before the
\* reply is sent and outside any try, so a message without text ends the
\* handler with a TypeError.
CalcPrintReply(present, text, calculator_data) ==
    IF ~calculator_data.ok
    THEN IF ~present THEN UnhandledTypeError
         ELSE IF text # <<>> /\ Contains(text, CALC_DATA_MARKER) THEN MSG_ERR_DECODE
         ELSE MSG_ERR_NO_DATA
    ELSE LabelFromCalculator

\* The statements of a decoder in order: the test of the text (lines 562,
\* 436), re.search (564, 439), match.group (567, 442), base64.b64decode
\* (569, 445), bytes.decode (570, 446), json.loads (571, 447)
ParseSteps == <<"not", "search", "group", "b64decode", "decode", "loads">>

\* Variant: the try starts after base64.b64decode
TryBody_late == {"decode", "loads"}

\* The statements inside try ... except Exception (lines 566-575, 441-451)
TryBody == {"group", "b64decode", "decode", "loads"}

\* The statement of the decoder that raises on this text, "none" when none
\* does.  The test of the text and re.search over a str or None text do not
\* raise, and neither does match.group(1).
StrStep(payload_str) ==
    IF ~payload_str.ok THEN "decode"
    ELSE IF ~json_loads(payload_str.val).ok THEN "loads"
    ELSE "none"

BytesStep(payload_bytes) ==
    IF ~payload_bytes.ok THEN "b64decode" ELSE StrStep(utf8_decode(payload_bytes.val))

MatchStep(match) == IF ~match.ok THEN "none" ELSE BytesStep(b64decode(match.val))

RaisingStep(text, marker) ==
    IF text = <<>> THEN "none" ELSE MatchStep(re_search(text, marker))

\* The statement is reached on this text and raises.
StepRaises(step, text, marker) ==
    /\ step \in {"b64decode", "decode", "loads"}
    /\ RaisingStep(text, marker) = step

\* An exception leaves the decoder
Propagates(text, marker) ==
    \E k \in DOMAIN ParseSteps :
        ParseSteps[k] \notin TryBody /\ StepRaises(ParseSteps[k], text, marker)

\* ------------------------------------------------- submitter of a row
\* A column value of a row is None (NULL, or a column of the joined table
\* when the join misses), an int, a str or, for a BLOB, bytes.
PyBytes(b) == JVal("bytes", b, <<>>)

\* "DB Sync"
DbSyncLit ==
    <<68, 66, 32, 83, 121, 110, 99>>

\* "Сотрудник ID: "
FellowIdLit ==
    <<1057, 1086, 1090, 1088, 1091, 1076, 1085, 1080, 1082, 32, 73, 68, 58, 32>>

\* f"{value}"
FormatValue(v) == IF v.t = "bytes" THEN BytesRepr(v.s) ELSE v.s

\* Variant: without the joined columns there is no submitter
user_identifier_joined(submitter_id, fellow_nickname, fellow_name) ==
    IF Truthy(fellow_nickname) THEN fellow_nickname ELSE fellow_name

\* process_and_send_db_case lines 1154-1164: user_identifier
user_identifier(submitter_id, fellow_nickname, fellow_name) ==
    IF Truthy(fellow_nickname) THEN fellow_nickname
    ELSE IF Truthy(fellow_name) THEN fellow_name
    ELSE IF Truthy(submitter_id) THEN JStr(FellowIdLit \o FormatValue(submitter_id))
    ELSE JStr(DbSyncLit)

\* ------------------------------------------------------- ticket inputs
\* Field values the tickets are built from.
\* "+79781234567"
PhonePlus7 ==
    <<43, 55, 57, 55, 56, 49, 50, 51, 52, 53, 54, 55>>

\* "89781234567"
PhoneEight ==
    <<56, 57, 55, 56, 49, 50, 51, 52, 53, 54, 55>>

\* "TV"
DescPlain ==
    <<84, 86>>

\* Cyrillic letter, newline, double quote, backslash, U+1F5A8
DescRich ==
    <<1071, 10, 34, 92, 128424>>

\* "a", newline, "Encoded Data: e30="
DescMarker ==
    <<97, 10, 69, 110, 99, 111, 100, 101, 100, 32, 68, 97, 116, 97, 58, 32,
    101, 51, 48, 61>>

\* "@ann"
SubmitterNick ==
    <<64, 97, 110, 110>>

\* a Cyrillic first name
SubmitterName ==
    <<1040, 1085, 1103>>

\* "2025-01-02 03:04"
TimeStamp ==
    <<50, 48, 50, 53, 45, 48, 49, 45, 48, 50, 32, 48, 51, 58, 48, 52>>

\* "Bob"
ClientBob ==
    <<66, 111, 98>>

\* "7"
CaseSeven ==
    <<55>>

\* "note"
NoteLine ==
    <<110, 111, 116, 101>>

\* "see "
SeeLit ==
    <<115, 101, 101, 32>>

\* '{"p":'
OpenObject ==
    <<123, 34, 112, 34, 58>>

Tickets ==
    [p : {PhonePlus7, PhoneEight, NA},
     d : {DescPlain, DescRich, DescMarker},
     s : {SubmitterNick, SubmitterName},
     t : {TimeStamp},
     s_type : {"str"}]

NoTicket == [p |-> <<>>, d |-> <<>>, s |-> <<>>, t |-> <<>>, s_type |-> "str"]

SampleToken ==
    base64_encoded_json([p |-> NA, d |-> DescPlain, s |-> SubmitterNick, t |-> TimeStamp,
                         s_type |-> "str"], TRUE).val

\* "app_type", "calculator", "items", "name", "price", "total", "1.5"
AppTypeLit == <<97, 112, 112, 95, 116, 121, 112, 101>>

CalculatorLit == <<99, 97, 108, 99, 117, 108, 97, 116, 111, 114>>

ItemsLit == <<105, 116, 101, 109, 115>>

NameLit == <<110, 97, 109, 101>>

PriceLit == <<112, 114, 105, 99, 101>>

TotalLit == <<116, 111, 116, 97, 108>>

OneAndHalf == <<49, 46, 53>>

\* process_calculator_app_data lines 386-392: print_data_payload of one item
print_data_payload ==
    JObj(<<<<AppTypeLit, JStr(CalculatorLit)>>,
           <<ItemsLit, JArr(<<JObj(<<<<NameLit, JStr(DescPlain)>>,
                                     <<PriceLit, JNum(OneAndHalf)>>>>)>>)>>,
           <<TotalLit, JNum(OneAndHalf)>>,
           <<KeyS, JStr(SubmitterNick)>>,
           <<KeyT, JStr(TimeStamp)>>>>)

\* lines 397-398: base64_encoded_json_for_message
CalcToken == b64encode(utf8_encode(dumps_value(print_data_payload, TRUE)).val)

\* process_calculator_app_data lines 368-376: "🛒 <b>Список товаров:</b>",
\* "- ", ": <code>", "</code>", "\n🟰 <b>Итого:</b> <code>", and 1.5 formatted
\* with :.2f
CalcListLit ==
    <<128722, 32, 60, 98, 62, 1057, 1087, 1080, 1089, 1086, 1082, 32, 1090, 1086, 1074,
      1072, 1088, 1086, 1074, 58, 60, 47, 98, 62>>

ItemDash == <<45, 32>>

CodeOpen == <<58, 32, 60, 99, 111, 100, 101, 62>>

CodeClose == <<60, 47, 99, 111, 100, 101, 62>>

CalcTotalLit ==
    <<10, 129008, 32, 60, 98, 62, 1048, 1090, 1086, 1075, 1086, 58, 60, 47, 98, 62, 32,
      60, 99, 111, 100, 101, 62>>

OneFifty == <<49, 46, 53, 48>>

\* callback_data of the two print buttons (lines 272, 1233; 402-405)
TICKET_PRINT_BUTTON == "print:parse_encoded"

CALC_PRINT_BUTTON == "print:parse_calculator_encoded"

\* A message that holds the ticket marker line only, and one that holds the
\* calculator marker line only
TicketLineOnly == TICKETS_DATA_MARKER \o <<32>> \o SampleToken

CalcLineOnly == CALC_DATA_MARKER \o <<32>> \o CalcToken

\* Tokens of JSON documents that are not a ticket: {}, [], null, and
\* {"p":"N/A","d":"TV"}
EmptyDictToken == b64encode(<<123, 125>>)

ListToken == b64encode(<<91, 93>>)

NullToken == b64encode(NullLit)

TwoFieldToken ==
    b64encode(utf8_encode(json_dumps(<<<<KeyP, NA>>, <<KeyD, DescPlain>>>>, TRUE)).val)

\* Lines a stored message may hold: plain text; a marker line with a good
\* token, with a token cut short, with a token that is not UTF-8, with a
\* token that is not JSON, with the token of a JSON document that is not
\* a ticket; a calculator marker line; the marker inside a line; the marker
\* alone
Lines ==
    {NoteLine,
     TicketLineOnly,
     CalcLineOnly,
     TICKETS_DATA_MARKER \o <<32>> \o EmptyDictToken,
     TICKETS_DATA_MARKER \o <<32>> \o ListToken,
     TICKETS_DATA_MARKER \o <<32>> \o NullToken,
     TICKETS_DATA_MARKER \o <<32>> \o TwoFieldToken,
     CALC_DATA_MARKER \o <<32>> \o SubSeq(CalcToken, 1, Len(CalcToken) - 2),
     TICKETS_DATA_MARKER \o <<32>> \o SubSeq(SampleToken, 1, Len(SampleToken) - 2),
     TICKETS_DATA_MARKER \o <<32>> \o b64encode(<<255>>),
     TICKETS_DATA_MARKER \o <<32>> \o b64encode(OpenObject),
     CALC_DATA_MARKER \o <<32>> \o SampleToken,
     SeeLit \o TICKETS_DATA_MARKER \o <<32>> \o SampleToken,
     TICKETS_DATA_MARKER}

\* '\n'.join(lines)
RECURSIVE JoinLines(_)
JoinLines(ls) ==
    IF ls = <<>> THEN <<>>
    ELSE IF Len(ls) = 1 THEN ls[1]
    ELSE ls[1] \o <<10>> \o JoinLines(Tail(ls))

\* Texts the print action may be run on: the empty text and every text of
\* up to MaxLines of these lines
Texts ==
    {<<>>} \cup {JoinLines(ls) : ls \in UNION {[1..n -> Lines] : n \in 1..MaxLines}}

\* b"ann"
BlobAnn == <<97, 110, 110>>

\* The submitter columns of the rows a fetch may return: c.fellow, and
\* f.fellow_nickname and f.fellow_name of the LEFT JOIN, which are NULL when
\* the join misses
FellowRows ==
    {row \in [fellow : {Python_None, JNum(<<48>>), JNum(<<55>>)},
              fellow_nickname : {Python_None, JStr(<<>>), JStr(SubmitterNick), PyBytes(BlobAnn)},
              fellow_name : {Python_None, JStr(SubmitterName)}] :
        row.fellow = Python_None =>
            (row.fellow_nickname = Python_None /\ row.fellow_name = Python_None)}

NoRow ==
    [fellow |-> Python_None, fellow_nickname |-> Python_None, fellow_name |-> Python_None]

\* row: the submitter columns of the row a data-source message was composed
\* from; button: callback_data of the print button in the reply_markup of
\* the message, "none" when it was composed without one or elsewhere
\* present: query.message.text is a str, not None; escaped, calc_escaped:
\* an exception left _parse_ticket_data, _parse_calculator_data; calc,
\* calc_reply: what the calculator print action made of the message
CodecIdle ==
    [pc |-> "idle", source |-> "none", ticket |-> NoTicket, present |-> FALSE,
     text |-> <<>>, result |-> Raised, reply |-> "none", escaped |-> FALSE,
     calc |-> Raised, calc_reply |-> "none", calc_escaped |-> FALSE,
     row |-> NoRow, button |-> "none"]

\* ------------------------------------------------------------ bootstrap
\* Cursor files a start-up may find: none, one written by an earlier run, or
\* one whose content is not a decimal integer
PriorFiles ==
    {NoFile, [exists |-> TRUE, content |-> <<"-", "1">>]}
        \cup {[exists |-> TRUE, content |-> Str(c)] : c \in 0..MaxRows}

\* Variant: the start-up scan is scheduled whether or not the data file exists
BootJobs_always(exists, t) == run_once(EmptyQueue, InitialSync, t, 0)

\* __main__ lines 1416-1462: the start-up scan is scheduled only inside
\* `if os.path.exists(DB_FILE_PATH)`
BootJobs(exists, t) ==
    IF exists THEN run_once(EmptyQueue, InitialSync, t, 0) ELSE EmptyQueue

\* Variant: the start-up scan is scheduled and the observer started before
\* the cursor is bootstrapped
MainStatements_watchFirst == <<"schedule", "start", "load", "fallback", "set", "polling">>

\* __main__ lines 1428-1459, the statements of the monitoring setup in
\* program order: load_last_known_id_from_file (1428), the fallback (1430-
\* 1434), application.bot_data[LAST_KNOWN_DB_CASE_ID_KEY] = ... (1437),
\* job_queue.run_once (1446), observer.start (1455), and run_polling, which
\* starts the job queue
MainStatements == <<"load", "fallback", "set", "schedule", "start", "polling">>

\* the statement after pc
MainAfter(pc) ==
    MainStatements[(CHOOSE k \in DOMAIN MainStatements : MainStatements[k] = pc) + 1]

\* __main__ has reached run_polling with this cursor
MainPolling(current_last_known_id) ==
    [pc |-> "polling", current_last_known_id |-> current_last_known_id]

\* run_polling has started the job queue: due callbacks are run
Polling == main.pc = "polling"

\* Line 1320: context.bot_data.get(LAST_KNOWN_DB_CASE_ID_KEY, 0)
bot_data_get(value, default) == IF value = None THEN default ELSE value

\* No chat handler is running.  calls: the calls of the Bot API the running
\* handler has awaited, in order, each <<method, chat, content, returned>>;
\* temp_msg: the handler holds the message MSG_GENERATING; local: a local
\* of the handler; exc: an exception is on its way out of the handler
\* ("propagating") or has left it ("raised")
HandlerIdle ==
    [name |-> "none", pc |-> "idle", calls |-> <<>>, temp_msg |-> FALSE,
     local |-> "none", exc |-> "none"]

\* ------------------------------------------------------------------- Init
\* State after __main__ has run up to application.run_polling.  Whether the
\* data file exists is decided here and stays so: the file is neither
\* created nor deleted later.  Without it bot_data has no cursor key.
Init ==
    /\ \E n \in 0..MaxRows : cases = 1..n
    /\ \E exists \in BOOLEAN, f \in PriorFiles, readable \in BOOLEAN, outcome \in SaveOutcomes :
          /\ load_last_known_id_from_file(f) <= Max(cases)
          /\ readable \in BootReadable(f)
          /\ outcome \in BootOutcomes(f)
          /\ exists \/ (readable /\ outcome = "ok")
          /\ observer = exists
          /\ idFile = IF exists THEN BootFileOf(f, cases, readable, outcome) ELSE f
          /\ bot_data = IF exists THEN BootCursorOf(f, cases, readable) ELSE None
          /\ bootCursor = bot_data
          /\ bootFallback = (exists /\ load_last_known_id_from_file(f) = None)
    /\ bootMax = Max(cases)
    /\ debug_mode \in BOOLEAN
    /\ now = DB_PROCESSING_DELAY
    /\ last_processed_event_time = 0
    /\ jobs = BootJobs(observer, now)
    /\ lockHolder = None
    /\ waiters = <<>>
    /\ inFlight = {}
    /\ sendLog = <<>>
    /\ evHist = NoEvents
    /\ uncovered = FALSE
    /\ lastScan = "none"
    /\ foreignSeen = FALSE
    /\ codec = CodecIdle
    /\ main = MainPolling(bot_data)
    /\ handler = HandlerIdle

\* ------------------------------------------------------------ environment
\* The clock advances (until the last write, and then until every scheduled
\* job has come due).
Tick ==
    /\ \/ now < MaxTime
       \/ \E j \in DOMAIN jobs : jobs[j].pc = "scheduled" /\ jobs[j].due > now
    /\ now' = now + 1
    /\ UNCHANGED <<cases, idFile, bot_data, debug_mode, last_processed_event_time, jobs, lockHolder,
                   waiters, inFlight, bootCursor, bootMax, sendLog, evHist, uncovered, lastScan, observer, bootFallback, foreignSeen, codec, main, handler>>

\* ---------------------------------------------------------- on_modified
\* The observer watches the directory of the data file, not recursively.
\* Names in that directory: the data file, a symbolic link to it, another
\* file (the database journal), and the directory itself.
db_path == "cases.db"

Events ==
    {[is_directory |-> FALSE, src_path |-> "cases.db"],
     [is_directory |-> FALSE, src_path |-> "link.db"],
     [is_directory |-> FALSE, src_path |-> "cases.db-journal"],
     [is_directory |-> TRUE, src_path |-> "."]}

DataFileEvent == [is_directory |-> FALSE, src_path |-> "cases.db"]

\* os.path.realpath: a symbolic link resolves to its target
realpath(path) == IF path = "link.db" THEN "cases.db" ELSE path

\* Variant: no event is filtered out
IsIgnored_never(event) == FALSE

\* Line 1298: the path filter of on_modified
IsIgnored(event) ==
    event.is_directory \/ realpath(event.src_path) # realpath(db_path)

\* An event that is not a modification of the watched file, under either of
\* its names
Foreign(event) ==
    event.is_directory \/ event.src_path \notin {"cases.db", "link.db"}

\* The legacy application writes the data file (it inserts a row with the
\* next autoincrement key, or rewrites existing data), or something else in
\* the directory changes, and the watchdog thread calls
\* DatabaseChangeHandler.on_modified with the event at time `now`.
\* Jobs are named db_check_<current_time>.
on_modified(event, insert) ==
    /\ observer
    /\ now <= MaxTime
    /\ insert => (~Foreign(event) /\ Max(cases) < MaxRows)
    /\ cases' = IF insert THEN cases \cup {Max(cases) + 1} ELSE cases
    /\ foreignSeen' = (foreignSeen \/ Foreign(event))
    /\ IF IsIgnored(event)
       THEN UNCHANGED <<last_processed_event_time, jobs, uncovered, evHist>>
       ELSE /\ evHist' = Observe(evHist, now, ~TooSoon(now, last_processed_event_time))
            /\ IF TooSoon(now, last_processed_event_time)
               THEN /\ uncovered' = TRUE
                    /\ UNCHANGED <<last_processed_event_time, jobs>>
               ELSE /\ last_processed_event_time' = now
                    /\ jobs' = run_once(jobs, now, now, ScanDelay)
                    /\ UNCHANGED uncovered
    /\ UNCHANGED <<idFile, bot_data, debug_mode, now, lockHolder, waiters,
                   inFlight, bootCursor, bootMax, sendLog, lastScan, observer, bootFallback, codec, main, handler>>

\* ------------------------------------------- process_db_changes_callback
\* Leaving `async with self._processing_lock`: the lock passes to the first
\* queued callback, which then reads bot_data (line 1320).
Release(j, cursor) ==
    /\ IF waiters = <<>>
       THEN /\ lockHolder' = None
            /\ waiters' = waiters
            /\ jobs' = Remove(jobs, j)
       ELSE /\ lockHolder' = Head(waiters)
            /\ waiters' = Tail(waiters)
            /\ jobs' = [k \in DOMAIN jobs \ {j} |->
                          IF k = Head(waiters)
                          THEN [jobs[k] EXCEPT !.pc = "fetch",
                                               !.last_known_id = bot_data_get(cursor, 0)]
                          ELSE jobs[k]]

\* The job queue starts a due callback; it enters the lock or queues on it.
JobStart(j) ==
    /\ Polling
    /\ jobs[j].pc = "scheduled"
    /\ now >= jobs[j].due
    /\ IF CanAcquire(lockHolder, waiters)
       THEN /\ lockHolder' = j
            /\ jobs' = [jobs EXCEPT ![j].pc = "fetch",
                                    ![j].last_known_id = bot_data_get(bot_data, 0)]
            /\ UNCHANGED waiters
       ELSE /\ waiters' = Append(waiters, j)
            /\ jobs' = [jobs EXCEPT ![j].pc = "waiting"]
            /\ UNCHANGED lockHolder
    /\ UNCHANGED <<cases, idFile, bot_data, debug_mode, now, last_processed_event_time, inFlight,
                   bootCursor, bootMax, sendLog, evHist, uncovered, lastScan, observer, bootFallback, foreignSeen, codec, main, handler>>

\* Ways a scan ends, as its log lines tell them apart: the fetch failed
\* (logged by get_new_cases_from_db, empty list returned), the fetch found
\* no new row, or a batch was looped over.  "none": no scan has ended yet.
ScanEnds == {"none", "failed", "empty", "batch"}

\* Variant: an empty result does not end the scan
NoNewCases_never(new_cases) == FALSE

\* Line 1328: `if not new_cases`
NoNewCases(new_cases) == new_cases = <<>>

\* Variant: the connection is writable and the query consumes the newest row
connect_db_rw(db) == db \ {Max(db)}

\* connect_db opens the data file with the URI file:<path>?mode=ro, and
\* get_initial_max_case_id and get_new_cases_from_db only execute SELECT
\* statements on it: the rows of the data source after a query
connect_db(db) == db

\* Lines 1320-1330: await asyncio.to_thread(get_new_cases_from_db, ...);
\* an empty result ends the scan.
Fetch(j, readable) ==
    /\ jobs[j].pc = "fetch"
    /\ uncovered' = FALSE
    /\ LET new_cases == get_new_cases_from_db(cases, jobs[j].last_known_id, readable)
       IN IF NoNewCases(new_cases)
          THEN /\ Release(j, bot_data)
               /\ lastScan' = IF readable THEN "empty" ELSE "failed"
          ELSE /\ UNCHANGED lastScan
               /\ jobs' = [jobs EXCEPT ![j].pc = "loop",
                              ![j].new_cases = new_cases,
                              ![j].i = 1,
                              ![j].max_id_in_batch = jobs[j].last_known_id,
                              ![j].successfully_processed_any_case = FALSE]
               /\ UNCHANGED <<lockHolder, waiters>>
    /\ cases' = connect_db(cases)
    /\ UNCHANGED <<idFile, bot_data, debug_mode, now, last_processed_event_time, inFlight,
                   bootCursor, bootMax, sendLog, evHist, observer, bootFallback, foreignSeen, codec, main, handler>>

\* Variant: the channel is written in debug mode too
SendsToChannel_always(debug) == TARGET_CHANNEL_ID

\* Lines 279 and 1270: if not debug_mode and TARGET_CHANNEL_ID
SendsToChannel(debug) == ~debug /\ TARGET_CHANNEL_ID

\* Variant: a processed row does not raise the maximum of the batch
Processed_keepMax(job, row) ==
    [job EXCEPT !.pc = "loop", !.i = job.i + 1, !.successfully_processed_any_case = TRUE]

\* Lines 1337-1339: process_and_send_db_case returned without raising
Processed(job, row) ==
    [job EXCEPT !.pc = "loop",
                !.i = job.i + 1,
                !.max_id_in_batch = IF row > job.max_id_in_batch
                                    THEN row ELSE job.max_id_in_batch,
                !.successfully_processed_any_case = TRUE]

\* Variant: the exception of one row leaves the loop
Skipped_abort(job) == [job EXCEPT !.pc = "loop", !.i = Len(job.new_cases) + 1]

\* Lines 1340-1341: process_and_send_db_case raised
Skipped(job) == [job EXCEPT !.pc = "loop", !.i = job.i + 1]

\* process_and_send_db_case up to the await of bot.send_message: building the
\* message may raise (caught by the loop); in debug mode or without a channel
\* nothing is sent and the function returns normally.
ProcessRow(j, raises) ==
    /\ jobs[j].pc = "loop"
    /\ jobs[j].i <= Len(jobs[j].new_cases)
    /\ LET row == jobs[j].new_cases[jobs[j].i]
       IN IF raises
          THEN /\ jobs' = [jobs EXCEPT ![j] = Skipped(jobs[j])]
               /\ UNCHANGED inFlight
          ELSE IF SendsToChannel(debug_mode)
          THEN /\ jobs' = [jobs EXCEPT ![j].pc = "sending"]
               /\ inFlight' = inFlight \cup {row}
          ELSE /\ jobs' = [jobs EXCEPT ![j] = Processed(jobs[j], row)]
               /\ UNCHANGED <<inFlight>>
    /\ UNCHANGED <<cases, idFile, bot_data, debug_mode, now, last_processed_event_time, lockHolder,
                   waiters, bootCursor, bootMax, sendLog,
                   evHist, uncovered, lastScan, observer, bootFallback, foreignSeen, codec, main, handler>>

\* Lines 1271-1281: bot.send_message returns (ok) or raises; the exception is
\* logged inside process_and_send_db_case, which returns normally either way.
SendEnd(j, ok) ==
    /\ jobs[j].pc = "sending"
    /\ LET row == jobs[j].new_cases[jobs[j].i]
       IN /\ inFlight' = inFlight \ {row}
          /\ sendLog' = Append(sendLog, <<row, ok>>)
          /\ jobs' = [jobs EXCEPT ![j] = Processed(jobs[j], row)]
    /\ UNCHANGED <<cases, idFile, bot_data, debug_mode, now, last_processed_event_time, lockHolder,
                   waiters, bootCursor, bootMax, evHist,
                   uncovered, lastScan, observer, bootFallback, foreignSeen, codec, main, handler>>

\* Variant: the cursor is never advanced
ShouldAdvance_never(job) == FALSE

\* Line 1345: the condition under which the cursor is advanced
ShouldAdvance(job) ==
    job.successfully_processed_any_case /\ job.max_id_in_batch > job.last_known_id

\* Lines 1343-1353 and the end of the `async with` block
Finish(j, outcome) ==
    /\ jobs[j].pc = "loop"
    /\ jobs[j].i > Len(jobs[j].new_cases)
    /\ IF ShouldAdvance(jobs[j])
       THEN /\ bot_data' = jobs[j].max_id_in_batch
            /\ idFile' = save_last_known_id_to_file(idFile, jobs[j].max_id_in_batch, outcome)
       ELSE /\ outcome = "ok"
            /\ UNCHANGED <<bot_data, idFile>>
    /\ Release(j, bot_data')
    /\ lastScan' = "batch"
    /\ UNCHANGED <<cases, debug_mode, now, last_processed_event_time, inFlight, bootCursor, bootMax,
                   sendLog, evHist, uncovered, observer, bootFallback, foreignSeen, codec, main, handler>>

\* ---------------------------------------------------------------- restart
\* The process stops at any point and __main__ runs again: jobs, lock and
\* debounce state are gone, the cursor is bootstrapped again.
Restart ==
    /\ \E readable \in BootReadable(idFile), outcome \in BootOutcomes(idFile) :
          /\ observer \/ (readable /\ outcome = "ok")
          /\ idFile' = IF observer THEN BootFileOf(idFile, cases, readable, outcome) ELSE idFile
          /\ bot_data' = IF observer THEN BootCursorOf(idFile, cases, readable) ELSE None
          /\ bootCursor' = bot_data'
    /\ bootFallback' = (observer /\ load_last_known_id_from_file(idFile) = None)
    /\ bootMax' = Max(cases)
    /\ debug_mode' \in BOOLEAN
    /\ last_processed_event_time' = 0
    /\ jobs' = BootJobs(observer, now)
    /\ lockHolder' = None
    /\ waiters' = <<>>
    /\ inFlight' = {}
    /\ sendLog' = <<>>
    /\ evHist' = NoEvents
    /\ uncovered' = FALSE
    /\ lastScan' = "none"
    /\ foreignSeen' = FALSE
    /\ cases' = connect_db(cases)
    /\ main' = MainPolling(bot_data')
    /\ handler' = HandlerIdle
    /\ UNCHANGED <<now, observer, codec>>

\* ------------------------------------------------------------------- Next
FileModified == \E insert \in BOOLEAN : on_modified(DataFileEvent, insert)

StartJob == \E j \in DOMAIN jobs : JobStart(j)

FetchRows == \E j \in DOMAIN jobs, readable \in BOOLEAN : Fetch(j, readable)

BeginRow == \E j \in DOMAIN jobs, raises \in BOOLEAN : ProcessRow(j, raises)

EndSend == \E j \in DOMAIN jobs, ok \in BOOLEAN : SendEnd(j, ok)

EndScan == \E j \in DOMAIN jobs, outcome \in SaveOutcomes : Finish(j, outcome)

Next ==
    \/ Tick
    \/ FileModified
    \/ StartJob
    \/ FetchRows
    \/ BeginRow
    \/ EndSend
    \/ EndScan
    \/ Restart

Spec == Init /\ [][Next]_vars

\* ------------------------------------------------- fault-free environment
\* A freshly started process outside debug mode whose cursor file holds the
\* cursor of the session, with a readable data source, well-formed rows, a reachable channel
\* and a writable cursor file.
FetchRowsOk == \E j \in DOMAIN jobs : Fetch(j, TRUE)

BeginRowOk == \E j \in DOMAIN jobs : ProcessRow(j, FALSE)

EndSendOk == \E j \in DOMAIN jobs : SendEnd(j, TRUE)

EndScanOk == \E j \in DOMAIN jobs : Finish(j, "ok")

NominalInit ==
    /\ Init
    /\ observer
    /\ ~debug_mode
    /\ load_last_known_id_from_file(idFile) = bot_data

NominalNext ==
    \/ Tick
    \/ FileModified
    \/ StartJob
    \/ FetchRowsOk
    \/ BeginRowOk
    \/ EndSendOk
    \/ EndScanOk

NominalSpec == NominalInit /\ [][NominalNext]_vars

\* ------------------------------------------------- events of the directory
\* The fault-free environment in which, besides the writes of the data file,
\* the observer also reports the other events of the watched directory.
DirectoryModified == \E event \in Events \ {DataFileEvent} : on_modified(event, FALSE)

WatchNext ==
    \/ Tick
    \/ FileModified
    \/ DirectoryModified
    \/ StartJob
    \/ FetchRowsOk
    \/ BeginRowOk
    \/ EndSendOk
    \/ EndScanOk

WatchSpec == NominalInit /\ [][WatchNext]_vars

\* ------------------------------------------------------ one process run
\* One run of the process, from its start to any point before it stops, in
\* either mode, with every fault of the data source, the rows and the
\* channel.  The cursor file holds the cursor the process started with and
\* is written without fault.
RunInit ==
    /\ Init
    /\ observer => load_last_known_id_from_file(idFile) = bot_data

RunNext ==
    \/ Tick
    \/ FileModified
    \/ StartJob
    \/ FetchRows
    \/ BeginRow
    \/ EndSend
    \/ EndScanOk

RunSpec == RunInit /\ [][RunNext]_vars

\* ------------------------------------------------ stops and restarts
\* The process of the fault-free environment, stopped at any point of a scan
\* and started again in the same mode, any number of times.
Crash ==
    /\ \E j \in DOMAIN jobs : InBody(j)
    /\ debug_mode' = debug_mode
    /\ Restart

CrashNext ==
    \/ Tick
    \/ FileModified
    \/ StartJob
    \/ FetchRowsOk
    \/ BeginRowOk
    \/ EndSendOk
    \/ EndScanOk
    \/ Crash

CrashSpec == NominalInit /\ [][CrashNext]_vars

\* ------------------------------------------------- the start of a process
\* __main__ statement by statement, for a data file that exists.  Until
\* observer.start the legacy application writes the data file unobserved;
\* from then on the watchdog thread calls on_modified, and job_queue.run_once
\* stores the job, which nothing runs before run_polling.
MainStep ==
    /\ ~Polling
    /\    CASE main.pc = "load" ->
                  /\ main' = [pc |-> MainAfter(main.pc),
                              current_last_known_id |-> load_last_known_id_from_file(idFile)]
                  /\ UNCHANGED <<idFile, bot_data, bootCursor, bootMax, bootFallback, jobs, observer>>
            [] main.pc = "fallback" ->
                  /\ IF main.current_last_known_id = None
                     THEN \E readable \in BOOLEAN, outcome \in SaveOutcomes :
                          /\ main' = [pc |-> MainAfter(main.pc),
                                      current_last_known_id |->
                                          get_initial_max_case_id(cases, readable)]
                          /\ idFile' = save_last_known_id_to_file(
                                           idFile, get_initial_max_case_id(cases, readable), outcome)
                     ELSE /\ main' = [main EXCEPT !.pc = MainAfter(main.pc)]
                          /\ UNCHANGED idFile
                  /\ bootFallback' = (main.current_last_known_id = None)
                  /\ UNCHANGED <<bot_data, bootCursor, bootMax, jobs, observer>>
            [] main.pc = "set" ->
                  /\ bot_data' = main.current_last_known_id
                  /\ bootCursor' = main.current_last_known_id
                  /\ bootMax' = Max(cases)
                  /\ main' = [main EXCEPT !.pc = MainAfter(main.pc)]
                  /\ UNCHANGED <<idFile, bootFallback, jobs, observer>>
            [] main.pc = "schedule" ->
                  /\ jobs' = run_once(jobs, InitialSync, now, 0)
                  /\ main' = [main EXCEPT !.pc = MainAfter(main.pc)]
                  /\ UNCHANGED <<idFile, bot_data, bootCursor, bootMax, bootFallback, observer>>
            [] main.pc = "start" ->
                  /\ observer' = TRUE
                  /\ main' = [main EXCEPT !.pc = MainAfter(main.pc)]
                  /\ UNCHANGED <<idFile, bot_data, bootCursor, bootMax, bootFallback, jobs>>
    /\ UNCHANGED <<cases, debug_mode, now, last_processed_event_time, lockHolder, waiters,
                   inFlight, sendLog, evHist, uncovered, lastScan, foreignSeen, codec, handler>>

\* The legacy application inserts a row while no observer is running
UnwatchedWrite ==
    /\ ~observer
    /\ Max(cases) < MaxRows
    /\ cases' = cases \cup {Max(cases) + 1}
    /\ UNCHANGED <<idFile, bot_data, debug_mode, now, last_processed_event_time, jobs,
                   lockHolder, waiters, inFlight, bootCursor, bootMax, sendLog, evHist,
                   uncovered, lastScan, observer, bootFallback, foreignSeen, codec, main,
                   handler>>

\* The process has been launched and __main__ has parsed its arguments
BootInit ==
    /\ \E n \in 0..MaxRows : cases = 1..n
    /\ idFile \in PriorFiles
    /\ load_last_known_id_from_file(idFile) <= Max(cases)
    /\ bot_data = None
    /\ debug_mode = FALSE
    /\ now = DB_PROCESSING_DELAY
    /\ last_processed_event_time = 0
    /\ jobs = EmptyQueue
    /\ lockHolder = None
    /\ waiters = <<>>
    /\ inFlight = {}
    /\ bootCursor = None
    /\ bootMax = Max(cases)
    /\ sendLog = <<>>
    /\ evHist = NoEvents
    /\ uncovered = FALSE
    /\ lastScan = "none"
    /\ observer = FALSE
    /\ bootFallback = FALSE
    /\ foreignSeen = FALSE
    /\ codec = CodecIdle
    /\ main = [pc |-> MainStatements[1], current_last_known_id |-> None]
    /\ handler = HandlerIdle

BootNext ==
    \/ MainStep
    \/ UnwatchedWrite
    \/ Tick
    \/ FileModified
    \/ StartJob
    \/ FetchRowsOk
    \/ BeginRowOk
    \/ EndSendOk
    \/ EndScanOk

BootSpec == BootInit /\ [][BootNext]_vars

\* ------------------------------------------------------ the cursor file
\* load_last_known_id_from_file and save_last_known_id_to_file called on
\* their own, in any order, on any file found on disk: missing, empty, or
\* holding digits, whitespace, a sign, or digits outside "0".."9".
FileAlphabet == {"0", "1", "9", " ", "\n", "-", ArabicFour, SuperscriptTwo}

RECURSIVE FileContents(_)
FileContents(n) ==
    IF n = 0 THEN {<<>>}
    ELSE FileContents(n - 1) \cup
         {Append(c, ch) : c \in {d \in FileContents(n - 1) : Len(d) = n - 1}, ch \in FileAlphabet}

FoundFiles == {NoFile} \cup {[exists |-> TRUE, content |-> c] : c \in FileContents(MaxChars)}

\* No monitoring is set up: no data file, no observer, no job
Unmonitored ==
    /\ cases = {}
    /\ bot_data = None
    /\ now = DB_PROCESSING_DELAY
    /\ last_processed_event_time = 0
    /\ jobs = EmptyQueue
    /\ lockHolder = None
    /\ waiters = <<>>
    /\ inFlight = {}
    /\ bootCursor = None
    /\ bootMax = 0
    /\ sendLog = <<>>
    /\ evHist = NoEvents
    /\ uncovered = FALSE
    /\ lastScan = "none"
    /\ observer = FALSE
    /\ bootFallback = FALSE
    /\ foreignSeen = FALSE

\* saved: the id of the latest save when it succeeded; read_raises: the
\* latest load could not read the file; raised: an exception left a helper
FileStart ==
    [pc |-> "start", current_last_known_id |-> None, saved |-> None,
     read_raises |-> FALSE, raised |-> FALSE]

FileInit ==
    /\ Unmonitored
    /\ idFile \in FoundFiles
    /\ debug_mode = FALSE
    /\ codec = CodecIdle
    /\ main = FileStart
    /\ handler = HandlerIdle

\* current_last_known_id = load_last_known_id_from_file(path)
LoadFile ==
    /\ \E read_raises \in BOOLEAN :
          main' = [main EXCEPT !.pc = "loaded",
                               !.current_last_known_id = LoadFrom(idFile, read_raises),
                               !.read_raises = read_raises,
                               !.raised = main.raised \/ LoadPropagates(idFile, read_raises)]
    /\ UNCHANGED <<cases, idFile, bot_data, debug_mode, now, last_processed_event_time, jobs,
                   lockHolder, waiters, inFlight, bootCursor, bootMax, sendLog, evHist,
                   uncovered, lastScan, observer, bootFallback, foreignSeen, codec, handler>>

\* save_last_known_id_to_file(path, last_id)
SaveFile ==
    /\ \E last_id \in 0..MaxSaved, outcome \in SaveOutcomes :
          /\ idFile' = save_last_known_id_to_file(idFile, last_id, outcome)
          /\ main' = [main EXCEPT !.pc = "saved",
                                  !.saved = IF outcome = "ok" THEN last_id ELSE None,
                                  !.raised = main.raised \/ SavePropagates(outcome)]
    /\ UNCHANGED <<cases, bot_data, debug_mode, now, last_processed_event_time, jobs,
                   lockHolder, waiters, inFlight, bootCursor, bootMax, sendLog, evHist,
                   uncovered, lastScan, observer, bootFallback, foreignSeen, codec, handler>>

FileNext ==
    \/ LoadFile
    \/ SaveFile

FileSpec == FileInit /\ [][FileNext]_vars

\* ------------------------------------------------------- fair scheduling
\* One run of the process outside debug mode with a readable data source,
\* well-formed rows and a writable cursor file; a send may fail.  The event
\* loop and the job queue are fair: the clock advances, a due job is
\* started, an awaited fetch or send returns and the scan body runs on.  A
\* send that is attempted again and again eventually succeeds.  The process
\* starts from a cursor file it could read: a start that fell back to the
\* maximum id is the same process state as a start from a file holding it.
LiveInit == NominalInit /\ ~bootFallback

LiveNext ==
    \/ Tick
    \/ FileModified
    \/ StartJob
    \/ FetchRowsOk
    \/ BeginRowOk
    \/ EndSend
    \/ EndScanOk

Fairness ==
    /\ WF_vars(Tick)
    /\ WF_vars(StartJob)
    /\ WF_vars(FetchRowsOk)
    /\ WF_vars(BeginRowOk)
    /\ WF_vars(EndSend)
    /\ WF_vars(EndScanOk)
    /\ SF_vars(EndSendOk)

LiveSpec == LiveInit /\ [][LiveNext]_vars /\ Fairness

\* ---------------------------------------------------------- ticket codec
\* A process started without --db-file: no observer, no scan, no cursor.
\* The chat handlers compose ticket messages and the print action decodes
\* the text of the message its button sits on.
pipeline ==
    <<cases, idFile, bot_data, debug_mode, now, last_processed_event_time, jobs,
      lockHolder, waiters, inFlight, bootCursor, bootMax, sendLog, evHist,
      uncovered, lastScan, observer, bootFallback, foreignSeen>>

CodecInit ==
    /\ cases = {}
    /\ idFile = NoFile
    /\ bot_data = None
    /\ debug_mode = FALSE
    /\ now = DB_PROCESSING_DELAY
    /\ last_processed_event_time = 0
    /\ jobs = EmptyQueue
    /\ lockHolder = None
    /\ waiters = <<>>
    /\ inFlight = {}
    /\ bootCursor = None
    /\ bootMax = 0
    /\ sendLog = <<>>
    /\ evHist = NoEvents
    /\ uncovered = FALSE
    /\ lastScan = "none"
    /\ observer = FALSE
    /\ bootFallback = FALSE
    /\ foreignSeen = FALSE
    /\ codec = CodecIdle
    /\ main = MainPolling(None)
    /\ handler = HandlerIdle

Message(source, ticket, present, text) ==
    [CodecIdle EXCEPT !.pc = "message", !.source = source, !.ticket = ticket,
                      !.present = present, !.text = text]

\* process_ticket_app_data posts the message of a form submission
ComposeForm ==
    /\ codec.pc = "idle"
    /\ \E ticket \in Tickets :
          /\ channel_message_text(ticket).ok
          /\ codec' = [Message("form", ticket, TRUE, channel_message_text(ticket).val)
                          EXCEPT !.button = TICKET_PRINT_BUTTON]
    /\ UNCHANGED <<pipeline, main, handler>>

\* process_and_send_db_case posts the message of a row
ComposeDb ==
    /\ codec.pc = "idle"
    /\ \E form \in Tickets, row \in FellowRows, client_name_db \in {NA, ClientBob} :
          LET who == user_identifier(row.fellow, row.fellow_nickname, row.fellow_name)
              ticket == [form EXCEPT !.s = who.s, !.s_type = who.t]
          IN codec' = [Message("db", ticket, TRUE,
                               db_message_text(ticket, CaseSeven, client_name_db))
                          EXCEPT !.row = row, !.button = TICKET_PRINT_BUTTON]
    /\ UNCHANGED <<pipeline, main, handler>>

\* process_calculator_app_data lines 368-409: response_message for one
\* item, "\n".join(message_parts); the marker line is appended and the
\* button created inside one try, so an encoding error leaves the message
\* without both
calculator_response(token) ==
    LET message_parts ==
            <<CalcListLit,
              ItemDash \o DescPlain \o CodeOpen \o OneFifty \o CodeClose,
              CalcTotalLit \o OneFifty \o CodeClose>>
    IN IF token.ok
       THEN [text |-> JoinLines(Append(message_parts,
                                       <<10, 10>> \o CALC_DATA_MARKER \o <<32>> \o token.val)),
             button |-> CALC_PRINT_BUTTON]
       ELSE [text |-> JoinLines(message_parts), button |-> "none"]

\* lines 396-398: json.dumps of print_data_payload with ensure_ascii, encoded
calc_encoded_json ==
    IF utf8_encode(dumps_value(print_data_payload, TRUE)).ok
    THEN Ok(CalcToken) ELSE Raised

\* process_calculator_app_data replies with the summary of a calculation
ComposeCalc ==
    /\ codec.pc = "idle"
    /\ codec' = [Message("calc", NoTicket, TRUE, calculator_response(calc_encoded_json).text)
                    EXCEPT !.button = calculator_response(calc_encoded_json).button]
    /\ UNCHANGED <<pipeline, main, handler>>

\* the print button sits on some other message, with or without a text
OtherMessage ==
    /\ codec.pc = "idle"
    /\ \/ \E text \in Texts : codec' = Message("other", NoTicket, TRUE, text)
       \/ codec' = Message("other", NoTicket, FALSE, <<>>)
    /\ UNCHANGED <<pipeline, main, handler>>

\* handle_ticket_print_callback line 864 binds ticket_data, the rest of the
\* handler replies from it
Printed(ticket_data) ==
    [codec EXCEPT !.pc = "replied",
                  !.result = ticket_data,
                  !.escaped = Propagates(codec.text, TICKETS_DATA_MARKER),
                  !.reply = ReplyFor(codec.text, ticket_data)]

\* handle_ticket_print_callback on the message
PrintCallback ==
    /\ codec.pc = "message"
    /\ codec' = Printed(_parse_ticket_data(codec.text))
    /\ UNCHANGED <<pipeline, main, handler>>

\* handle_calculator_print_callback line 937 binds calculator_data, the
\* rest of the handler replies from it
CalcPrinted(calculator_data) ==
    [codec EXCEPT !.calc = calculator_data,
                  !.calc_escaped = Propagates(codec.text, CALC_DATA_MARKER),
                  !.calc_reply = CalcPrintReply(codec.present, codec.text, calculator_data)]

\* handle_calculator_print_callback on the message
CalcPrintCallback ==
    /\ codec.pc \in {"message", "replied"}
    /\ codec.calc_reply = "none"
    /\ codec' = CalcPrinted(_parse_calculator_data(codec.text))
    /\ UNCHANGED <<pipeline, main, handler>>

CodecNext ==
    \/ ComposeForm
    \/ ComposeDb
    \/ ComposeCalc
    \/ OtherMessage
    \/ PrintCallback
    \/ CalcPrintCallback

CodecSpec == CodecInit /\ [][CodecNext]_vars

\* ---------------------------------------------------------- chat handlers
\* A handler runs from the update that starts it to its return, one awaited
\* call of the Bot API at a time; every such call returns or raises.
Awaited(api, chat, content, returned, pc) ==
    [handler EXCEPT !.calls = Append(@, <<api, chat, content, returned>>), !.pc = pc]

Goto(pc) == [handler EXCEPT !.pc = pc]

\* The handler is left by an exception
Raise == [handler EXCEPT !.pc = "done", !.exc = "raised"]

\* An update reaches its handler: /start (start_command), the data of the
\* ticket form (handle_web_app_data, app_origin ticket_app), a press of a
\* print button (handle_ticket_print_callback,
\* handle_calculator_print_callback)
Handlers == {"start_command", "process_ticket_app_data",
             "handle_ticket_print_callback", "handle_calculator_print_callback"}

Dispatched(names) ==
    /\ Polling
    /\ handler.pc = "idle"
    /\ \E name \in names : handler' = [HandlerIdle EXCEPT !.name = name, !.pc = "begin"]
    /\ UNCHANGED <<pipeline, codec, main>>

Dispatch == Dispatched(Handlers)

\* The user submits the ticket form
FormSubmitted == Dispatched({"process_ticket_app_data"})

\* The handler has returned or raised; the application is ready for the
\* next update
HandlerReturn ==
    /\ handler.pc = "done"
    /\ handler' = HandlerIdle
    /\ UNCHANGED <<pipeline, codec, main>>

\* Variant: a failed channel post does not end the form handler
AfterChannelPost_goOn(returned) == "confirm"

\* process_ticket_app_data lines 299-306: after bot.send_message to the
\* channel the handler goes on to the confirmation, or replies with the
\* error and returns
AfterChannelPost(returned) == IF returned THEN "confirm" ELSE "channel_error"

\* process_ticket_app_data lines 264-347, called by handle_web_app_data
\* inside try ... except Exception (lines 1008-1030).  The values encoded
\* are strings that json.loads returned, so of the exceptions of lines
\* 265-266 only the exhaustion of memory is left: the first step takes it
\* from the environment.
TicketFormStep ==
    /\ handler.name = "process_ticket_app_data"
    /\ \/ /\ handler.pc = "begin"
          /\ \E returned \in BOOLEAN, ticket \in Tickets :
                handler' =
                   IF ~returned \/ ~base64_encoded_json(ticket, TRUE).ok
                   THEN [Goto("encode_error") EXCEPT !.local = "encoding failed"]
                   ELSE IF SendsToChannel(debug_mode) THEN Goto("channel")
                   ELSE IF debug_mode THEN Goto("confirm")
                   ELSE Goto("no_channel")
       \/ \E returned \in BOOLEAN :
          handler' =
             CASE handler.pc = "encode_error" ->
                     Awaited("reply_text", "user", "error preparing your ticket data", returned,
                             IF returned THEN "done" ELSE "outer_except")
               [] handler.pc = "channel" ->
                     Awaited("send_message", "channel", "ticket", returned,
                             AfterChannelPost(returned))
               [] handler.pc = "channel_error" ->
                     Awaited("reply_text", "user", "error posting your ticket to the channel",
                             returned, IF returned THEN "done" ELSE "outer_except")
               [] handler.pc = "no_channel" ->
                     Awaited("reply_text", "user", "channel is not configured", returned,
                             IF returned THEN "done" ELSE "outer_except")
               [] handler.pc = "confirm" ->
                     Awaited("reply_text", "user", "ticket", returned,
                             IF returned THEN "done" ELSE "confirm_error")
               [] handler.pc = "confirm_error" ->
                     Awaited("reply_text", "user", "failed to send your ticket confirmation",
                             returned, "done")
               [] handler.pc = "outer_except" ->
                     IF returned
                     THEN Awaited("reply_text", "user", "unexpected error", TRUE, "done")
                     ELSE [Awaited("reply_text", "user", "unexpected error", FALSE, "done")
                              EXCEPT !.exc = "raised"]
               [] OTHER -> handler
    /\ handler' # handler
    /\ UNCHANGED <<pipeline, codec, main>>

\* Variant: a restricted user is let in
allowed_statuses_restricted == {"member", "administrator", "creator", "restricted"}

\* start_command line 128: ChatMemberStatus.MEMBER, ADMINISTRATOR, OWNER
allowed_statuses == {"member", "administrator", "creator"}

\* Values of ChatMember.status, and the ways get_chat_member raises that
\* lines 135-143 tell apart
ChatMemberStatuses == {"creator", "administrator", "member", "restricted", "left", "kicked"}

MembershipErrors == {"BadRequest: user not found", "BadRequest", "TelegramError"}

\* start_command lines 102-180
StartCommandStep ==
    /\ handler.name = "start_command"
    /\ \E returned \in BOOLEAN, outcome \in ChatMemberStatuses \cup MembershipErrors :
          handler' =
             CASE handler.pc = "begin" /\ returned /\ outcome = "member" ->
                     IF debug_mode THEN Goto("debug_notice")
                     ELSE IF ~TARGET_CHANNEL_ID
                     THEN [Goto("deny") EXCEPT !.local = "configuration error"]
                     ELSE Goto("membership")
               [] handler.pc = "debug_notice" /\ outcome = "member" ->
                     IF returned
                     THEN Awaited("reply_text", "user", "debug mode notice", TRUE, "keyboard")
                     ELSE [Awaited("reply_text", "user", "debug mode notice", FALSE, "done")
                              EXCEPT !.exc = "raised"]
               [] handler.pc = "membership" /\ returned ->
                     [Awaited("get_chat_member", "channel", outcome,
                              outcome \in ChatMemberStatuses,
                              IF outcome \in allowed_statuses THEN "keyboard" ELSE "deny")
                         EXCEPT !.local = outcome]
               [] handler.pc = "keyboard" /\ outcome = "member" ->
                     IF returned
                     THEN Awaited("reply_text", "user", "ReplyKeyboardMarkup", TRUE, "done")
                     ELSE [Awaited("reply_text", "user", "ReplyKeyboardMarkup", FALSE, "done")
                              EXCEPT !.exc = "raised"]
               [] handler.pc = "deny" /\ outcome = "member" ->
                     IF returned
                     THEN Awaited("reply_text", "user", "ReplyKeyboardRemove", TRUE, "done")
                     ELSE [Awaited("reply_text", "user", "ReplyKeyboardRemove", FALSE, "done")
                              EXCEPT !.exc = "raised"]
               [] OTHER -> handler
    /\ handler' # handler
    /\ UNCHANGED <<pipeline, codec, main>>

\* Stages of a print callback between its awaited calls end in one of three
\* ways: with a value, with None (the parsers on a text without a decodable
\* token, the label functions on a missing font, _save_label_image on a
\* failed save, the test of app_type on another payload) or by raising.
StageOutcomes == {"value", "None", "raises"}

\* Lines 867 and 943: the reply to a text without a decodable token, by
\* the presence of the marker in the text
ErrMsg(marker) == IF marker THEN MSG_ERR_DECODE ELSE MSG_ERR_NO_DATA

\* await query.message.reply_text(content) inside the try of a print
\* callback; an exception goes to its except clause
Reply(content, returned, pc) ==
    Awaited("reply_text", "user", content, returned, IF returned THEN pc ELSE "except")

\* A stage of the try block: on None the handler replies at pc none
Stage(outcome, pc, none) ==
    Goto(CASE outcome = "value" -> pc [] outcome = "None" -> none [] OTHER -> "except")

\* except Exception (lines 903-905, 990-992): the reply may raise in turn,
\* and the exception leaves the handler after the finally clause
Except(returned) ==
    IF returned
    THEN Awaited("reply_text", "user", MSG_ERR_GENERIC, TRUE, "finally")
    ELSE [Awaited("reply_text", "user", MSG_ERR_GENERIC, FALSE, "finally")
             EXCEPT !.exc = "propagating"]

\* finally (lines 906-914, 993-998): delete_message on the temporary
\* message, its exception logged
Finally(returned) ==
    LET left == [handler EXCEPT !.pc = "done",
                                !.exc = IF @ = "propagating" THEN "raised" ELSE @]
    IN IF handler.temp_msg
       THEN [left EXCEPT !.calls = Append(@, <<"delete_message", "user", MSG_GENERATING, returned>>)]
       ELSE left

\* Lines 848-863 and 923-936: query.answer(), and the notice to the user
\* when the message of the button is not accessible
Answer(returned, accessible, pc) ==
    CASE handler.pc = "begin" ->
            IF returned
            THEN Awaited("answer", "user", "callback", TRUE,
                         IF accessible THEN pc ELSE "notify")
            ELSE [Awaited("answer", "user", "callback", FALSE, "done") EXCEPT !.exc = "raised"]
      [] handler.pc = "notify" ->
            Awaited("send_message", "user", "message is not accessible", returned, "done")

\* temp_msg = await query.message.reply_text(MSG_GENERATING), before the try
PostTemp(returned, pc) ==
    IF returned
    THEN [Awaited("reply_text", "user", MSG_GENERATING, TRUE, pc) EXCEPT !.temp_msg = TRUE]
    ELSE [Awaited("reply_text", "user", MSG_GENERATING, FALSE, "done") EXCEPT !.exc = "raised"]

\* handle_ticket_print_callback lines 842-914
TicketPrintStep ==
    /\ handler.name = "handle_ticket_print_callback"
    /\ \E returned \in BOOLEAN, outcome \in StageOutcomes, printer_name \in BOOLEAN,
          marker \in BOOLEAN :
          handler' =
             CASE handler.pc \in {"begin", "notify"} ->
                     Answer(returned, outcome = "value", "post_temp")
               [] handler.pc = "post_temp" -> PostTemp(returned, "parse")
               [] handler.pc = "parse" -> Stage(outcome, "generate", "no_data")
               [] handler.pc = "no_data" -> Reply(ErrMsg(marker), returned, "finally")
               [] handler.pc = "generate" -> Stage(outcome, "save", "no_label")
               [] handler.pc = "no_label" -> Reply(MSG_ERR_GENERIC, returned, "finally")
               [] handler.pc = "save" -> Stage(outcome, "deliver", "no_file")
               [] handler.pc = "no_file" ->
                     Reply("Failed to save the label image", returned, "finally")
               [] handler.pc = "deliver" ->
                     IF printer_name
                     THEN Awaited("subprocess.run", "printer", "label", outcome # "raises",
                                  IF outcome = "raises" THEN "except" ELSE "finally")
                     ELSE IF outcome = "raises" THEN Goto("except")
                     ELSE Awaited("reply_photo", "user", "label", returned,
                                  IF returned THEN "finally" ELSE "except")
               [] handler.pc = "except" -> Except(returned)
               [] handler.pc = "finally" -> Finally(returned)
               [] OTHER -> handler
    /\ handler' # handler
    /\ UNCHANGED <<pipeline, codec, main>>

\* Lines 955, 961, 967: if temp_msg: await context.bot.delete_message(...),
\* inside the try and followed by return
EarlyDelete(returned) ==
    IF handler.temp_msg
    THEN Awaited("delete_message", "user", MSG_GENERATING, returned,
                 IF returned THEN "finally" ELSE "except")
    ELSE Goto("finally")

\* handle_calculator_print_callback lines 917-998
CalcPrintStep ==
    /\ handler.name = "handle_calculator_print_callback"
    /\ \E returned \in BOOLEAN, outcome \in StageOutcomes, printer_name \in BOOLEAN,
          marker \in BOOLEAN :
          handler' =
             CASE handler.pc \in {"begin", "notify"} ->
                     Answer(returned, outcome = "value", "parse")
               [] handler.pc = "parse" ->
                     CASE outcome = "value" -> Goto("post_temp")
                       [] outcome = "None" -> Goto("no_data")
                       [] OTHER -> Raise
               [] handler.pc = "no_data" ->
                     IF outcome = "raises" THEN Raise
                     ELSE IF returned
                     THEN Awaited("reply_text", "user", ErrMsg(marker), TRUE, "done")
                     ELSE [Awaited("reply_text", "user", ErrMsg(marker), FALSE, "done")
                              EXCEPT !.exc = "raised"]
               [] handler.pc = "post_temp" -> PostTemp(returned, "app_type")
               [] handler.pc = "app_type" -> Stage(outcome, "generate", "not_calculator")
               [] handler.pc = "not_calculator" ->
                     Reply("not calculator data", returned, "early_delete")
               [] handler.pc = "generate" -> Stage(outcome, "save", "no_label")
               [] handler.pc = "no_label" -> Reply(MSG_ERR_GENERIC, returned, "early_delete")
               [] handler.pc = "save" -> Stage(outcome, "deliver", "no_file")
               [] handler.pc = "no_file" ->
                     Reply("failed to save the image", returned, "early_delete")
               [] handler.pc = "early_delete" -> EarlyDelete(returned)
               [] handler.pc = "deliver" ->
                     IF printer_name
                     THEN Awaited("subprocess.run", "printer", "label", outcome = "value",
                                  CASE outcome = "value" -> "finally"
                                    [] outcome = "None" -> "print_failed"
                                    [] OTHER -> "except")
                     ELSE IF outcome = "raises" THEN Goto("except")
                     ELSE Awaited("reply_photo", "user", "label", returned,
                                  IF returned THEN "finally" ELSE "except")
               [] handler.pc = "print_failed" -> Reply("print error", returned, "finally")
               [] handler.pc = "except" -> Except(returned)
               [] handler.pc = "finally" -> Finally(returned)
               [] OTHER -> handler
    /\ handler' # handler
    /\ UNCHANGED <<pipeline, codec, main>>

\* ------------------------------------------------------ the chat handlers
\* The application polls without a data source; updates reach the four
\* handlers one after the other, in either mode.
HandlerInit ==
    /\ Unmonitored
    /\ idFile = NoFile
    /\ debug_mode \in BOOLEAN
    /\ codec = CodecIdle
    /\ main = MainPolling(None)
    /\ handler = HandlerIdle

HandlerNext ==
    \/ Dispatch
    \/ StartCommandStep
    \/ TicketFormStep
    \/ TicketPrintStep
    \/ CalcPrintStep
    \/ HandlerReturn

HandlerSpec == HandlerInit /\ [][HandlerNext]_vars

\* ------------------------------------------------- both modes of the bot
\* The fault-free environment in either mode: the process is started with or
\* without --debug (line 1398) and is stopped and started again in the other
\* mode with the cursor file it left.
SwitchMode ==
    /\ Restart
    /\ debug_mode' # debug_mode
    /\ load_last_known_id_from_file(idFile') = bot_data'

ModeInit ==
    /\ Init
    /\ observer
    /\ load_last_known_id_from_file(idFile) = bot_data

ModeNext ==
    \/ Tick
    \/ FileModified
    \/ StartJob
    \/ FetchRowsOk
    \/ BeginRowOk
    \/ EndSendOk
    \/ EndScanOk
    \/ SwitchMode

ModeSpec == ModeInit /\ [][ModeNext]_vars

\* Users submit the ticket form while the scan of the start of the process
\* runs over the rows it finds, in either mode.
FormNext ==
    \/ StartJob
    \/ FetchRowsOk
    \/ BeginRowOk
    \/ EndSendOk
    \/ EndScanOk
    \/ SwitchMode
    \/ FormSubmitted
    \/ TicketFormStep
    \/ HandlerReturn

FormSpec == ModeInit /\ [][FormNext]_vars

\* ============================================================== claims
Scanning == {j \in DOMAIN jobs : InBody(j)}

StartupScanDone == InitialSync \notin DOMAIN jobs

\* C1: outside debug mode, every row above the cursor loaded at start-up and
\* at or below the current cursor has been delivered to the channel at least
\* once (the cursor never passes a row whose send failed).
C1_CursorCoversOnlyDelivered ==
    ~debug_mode => \A r \in (bootCursor + 1)..bot_data : r \in Delivered

\* C2: outside debug mode the cursor is the start-up cursor or the id of a
\* row whose send succeeded, and between scans it equals the highest row id
\* whose send succeeded.
C2_CursorIsHighestDelivered ==
    ~debug_mode =>
        /\ bot_data \in Delivered \cup {bootCursor}
        /\ lockHolder = None => bot_data = Max(Delivered \cup {bootCursor})

\* C3: the cursor never decreases, in memory or in the cursor file, in any
\* step including a restart.
C3_CursorNeverDecreases ==
    [][/\ bot_data' >= bot_data
       /\ (load_last_known_id_from_file(idFile) # None
           /\ load_last_known_id_from_file(idFile') # None)
          => load_last_known_id_from_file(idFile')
                >= load_last_known_id_from_file(idFile)]_vars

\* C4: a process started with cursor c in the cursor file and rows c+1..c+k
\* in the table has, once its start-up scan is over, sent exactly those k
\* rows first, each once, in ascending order and successfully; every later
\* send is for a row inserted afterwards; the cursor in memory equals the
\* cursor in the file, and it is c+k when no row was inserted meanwhile.
C4_ResumeAfterRestart ==
    StartupScanDone =>
        /\ Len(sendLog) >= bootMax - bootCursor
        /\ \A n \in 1..Len(sendLog) :
              IF n <= bootMax - bootCursor
              THEN sendLog[n] = <<bootCursor + n, TRUE>>
              ELSE sendLog[n][1] > bootMax
        /\ load_last_known_id_from_file(idFile) = bot_data
        /\ bot_data >= bootMax
        /\ (lockHolder = None /\ Max(cases) = bootMax) => bot_data = bootMax

C4_Witness ==
    /\ StartupScanDone
    /\ lockHolder = None
    /\ bootMax - bootCursor >= 2
    /\ Len(sendLog) = bootMax - bootCursor
    /\ bot_data = bootMax

\* C5: the rows of a fetched batch are in strictly ascending id order, the
\* sends happen in strictly ascending id order, and at most one send is in
\* progress, which is for a row above every row sent before.
C5_AscendingSequentialSends ==
    /\ \A j \in DOMAIN jobs : \A a, b \in 1..Len(jobs[j].new_cases) :
          a < b => jobs[j].new_cases[a] < jobs[j].new_cases[b]
    /\ \A a, b \in 1..Len(sendLog) : a < b => sendLog[a][1] < sendLog[b][1]
    /\ Cardinality(inFlight) <= 1
    /\ \A r \in inFlight : \A n \in 1..Len(sendLog) : sendLog[n][1] < r

C5_Witness ==
    \E j \in DOMAIN jobs :
        /\ jobs[j].pc = "sending"
        /\ jobs[j].i >= 2
        /\ Len(sendLog) >= 1
        /\ sendLog[Len(sendLog)][1] = jobs[j].new_cases[jobs[j].i - 1]

\* C6: at most one scan body is executing at any time, and it is the one
\* that holds the lock.
C6_SingleFlight ==
    /\ Cardinality(Scanning) <= 1
    /\ \A j \in Scanning : lockHolder = j

C6_Witness ==
    /\ Scanning # {}
    /\ waiters # <<>>

\* C7: while a scan holds the lock, no file event puts a further scan job
\* into the job queue.
C7_NoJobEnqueuedDuringScan ==
    [][lockHolder # None => (DOMAIN jobs' \ DOMAIN jobs) \subseteq {InitialSync}]_vars

\* C8: on_modified calls that all lie within one debounce window schedule
\* exactly one scan; calls that each come more than DB_PROCESSING_DELAY after
\* the previous one schedule one scan each.
C8_DebounceCollapse ==
    /\ (evHist.within /\ evHist.n >= 1) => evHist.sched = 1
    /\ evHist.spaced => evHist.sched = evHist.n

C8_Witness ==
    /\ evHist.within
    /\ ~evHist.spaced
    /\ evHist.n >= 2
    /\ evHist.sched = 1

\* C9: an accepted event schedules one scan job, due DB_PROCESSING_DELAY
\* later; no scan job starts earlier than DB_PROCESSING_DELAY after the event
\* that scheduled it; and after every event dropped by the debounce a fetch
\* starts.
AcceptSchedulesScan ==
    last_processed_event_time' # last_processed_event_time =>
        /\ now \notin DOMAIN jobs
        /\ DOMAIN jobs' = DOMAIN jobs \cup {now}
        /\ jobs'[now].pc = "scheduled"
        /\ jobs'[now].due = now + DB_PROCESSING_DELAY

NoEarlyStart ==
    \A j \in (DOMAIN jobs \cap DOMAIN jobs') \ {InitialSync} :
        (jobs[j].pc = "scheduled" /\ jobs'[j].pc # "scheduled")
            => now >= jobs[j].ev + DB_PROCESSING_DELAY

C10_EveryRowDelivered ==
    \A r \in 1..MaxRows : (r \in cases /\ r > bootMax) ~> (r \in Delivered)

\* A step in which scan j ends where it stands, leaving the cursor, the
\* cursor file and the channel alone; the scan that takes the lock over, if
\* any, reads the same cursor.
EndsAsNoOp(j) ==
    /\ j \notin DOMAIN jobs'
    /\ bot_data' = bot_data
    /\ idFile' = idFile
    /\ sendLog' = sendLog
    /\ inFlight' = inFlight
    /\ lockHolder' # None => jobs'[lockHolder'].last_known_id = bot_data

\* C11: when the fetch of a scan fails, the scan ends at once without
\* publishing, the cursor in memory and the cursor file are unchanged, and
\* the next scan queries from the same cursor.
C11_FetchFailureIsNoOp ==
    [][\A j \in DOMAIN jobs : Fetch(j, FALSE) => EndsAsNoOp(j)]_vars

C11_Witness ==
    /\ lastScan = "failed"
    /\ ~debug_mode
    /\ \E r \in cases : r > bot_data
    /\ \E j \in DOMAIN jobs : jobs[j].pc = "fetch" /\ jobs[j].last_known_id = bot_data

\* C12: when the fetch of a scan returns no row, the scan ends at once: no
\* message is sent, the cursor file is not rewritten and the cursor in
\* memory is unchanged.
C12_EmptyDiffIsNoOp ==
    [][\A j \in DOMAIN jobs :
          (/\ jobs[j].pc = "fetch"
           /\ get_new_cases_from_db(cases, jobs[j].last_known_id, TRUE) = <<>>
           /\ Fetch(j, TRUE))
          => EndsAsNoOp(j)]_vars

C12_Witness ==
    /\ lastScan = "empty"
    /\ lockHolder = None
    /\ evHist.n >= 1
    /\ bot_data = Max(cases)
    /\ bot_data > bootCursor

\* C13: within one process lifetime no row is sent to the channel more than
\* once: every scan works from the cursor the previous scan left, its batch
\* holds only rows above that cursor, and no row still to be sent by a scan
\* has been sent before.
C13_NoRowPublishedTwice ==
    /\ \A a, b \in 1..Len(sendLog) : a # b => sendLog[a][1] # sendLog[b][1]
    /\ \A r \in inFlight : \A n \in 1..Len(sendLog) : sendLog[n][1] # r
    /\ \A j \in Scanning :
          /\ jobs[j].last_known_id = bot_data
          /\ \A k \in 1..Len(jobs[j].new_cases) :
                /\ jobs[j].new_cases[k] > jobs[j].last_known_id
                /\ (k > jobs[j].i \/ (k = jobs[j].i /\ jobs[j].pc = "loop"))
                      => \A n \in 1..Len(sendLog) : sendLog[n][1] # jobs[j].new_cases[k]

C13_Witness ==
    /\ lastScan = "batch"
    /\ bootMax > bootCursor
    /\ Max(cases) > bootMax
    /\ Len(sendLog) = Max(cases) - bootCursor
    /\ evHist.sched >= 1
    /\ \E j \in DOMAIN jobs : jobs[j].pc = "fetch" /\ jobs[j].last_known_id = Max(cases)

\* C14: once a scan of this lifetime has advanced the cursor and no scan is
\* running, the cursor in memory equals the integer stored in the cursor
\* file.
C14_CursorEqualsFile ==
    (lockHolder = None /\ lastScan # "none" /\ bot_data > bootCursor)
        => load_last_known_id_from_file(idFile) = bot_data

\* C15: a scan that is looping over its batch moves on by exactly one row at
\* a time whether or not the row raised, keeps the lock and its batch while
\* it does, and ends only after every row of the batch has been attempted,
\* giving up the lock as it returns.
C15_RowFailureIsLocal ==
    [][\A j \in DOMAIN jobs :
          jobs[j].pc \in {"loop", "sending"} =>
              IF j \in DOMAIN jobs'
              THEN /\ jobs'[j].pc \in {"loop", "sending"}
                   /\ jobs'[j].new_cases = jobs[j].new_cases
                   /\ jobs'[j].i \in {jobs[j].i, jobs[j].i + 1}
                   /\ lockHolder' = j
              ELSE /\ jobs[j].pc = "loop"
                   /\ jobs[j].i = Len(jobs[j].new_cases) + 1
                   /\ lockHolder' # j]_vars

\* the first row of a batch raised and the second row is being sent
C15_Witness ==
    \E j \in DOMAIN jobs :
        /\ jobs[j].pc = "sending"
        /\ jobs[j].i = 2
        /\ ~jobs[j].successfully_processed_any_case
        /\ lockHolder = j

\* C16: when the bootstrap finds no valid id in the cursor file, the cursor
\* starts at the largest row id present, so that no row present at start-up
\* is ever sent to the channel.
C16_PresentRowsNotPublished ==
    bootFallback =>
        /\ \A n \in 1..Len(sendLog) : sendLog[n][1] > bootMax
        /\ \A r \in inFlight : r > bootMax

C18_ForeignEventIgnored ==
    [][(foreignSeen' /\ ~foreignSeen) =>
          /\ last_processed_event_time' = last_processed_event_time
          /\ jobs' = jobs
          /\ uncovered' = uncovered
          /\ evHist' = evHist
          /\ cases' = cases]_vars

\* a foreign event came when an event for the data file would have been
\* accepted, and none has been accepted since
C18_Witness ==
    /\ foreignSeen
    /\ now - last_processed_event_time >= DB_PROCESSING_DELAY
    /\ jobs = EmptyQueue
    /\ evHist.n = 0
    /\ lastScan # "none"

\* A ticket whose submitter is a str and none of whose fields holds the
\* marker text or a surrogate code point
WellFormed(ticket) ==
    /\ ticket.s_type = "str"
    /\ \A f \in {ticket.p, ticket.d, ticket.s, ticket.t} :
          /\ ~Contains(f, TICKETS_DATA_MARKER)
          /\ \A i \in 1..Len(f) : ~IsSurrogate(f[i])

\* C19: for every well-formed ticket, decoding the full text of the message
\* composed for it, on the form path or on the data-source path, gives a
\* dict holding exactly the four field values of the ticket.
C19_RoundTrip ==
    (codec.pc = "replied" /\ codec.source \in {"form", "db"} /\ WellFormed(codec.ticket))
        => /\ codec.result = Ok(JDict(ticket_details_to_encode(codec.ticket)))
           /\ codec.reply = LabelFromTicket

C19_Witness ==
    /\ codec.pc = "replied"
    /\ codec.source = "db"
    /\ codec.ticket.d = DescRich
    /\ codec.ticket.s = SubmitterName
    /\ codec.result.ok

\* A line of the text starts with the ticket marker
HasMarkerLine(text) ==
    \E p \in 1..Len(text) : AtLineStart(text, p) /\ MatchesAt(text, p, TICKETS_DATA_MARKER)

\* C20: the print action answers "data not found" exactly when no line of
\* the text starts with the ticket marker, "failed to decode" when there is
\* such a line and its token does not decode, and hands the decoded value to
\* the label generation otherwise.
C20_ThreeOutcomes ==
    codec.pc = "replied" =>
        IF ~HasMarkerLine(codec.text) THEN codec.reply = MSG_ERR_NO_DATA
        ELSE IF ~_parse_ticket_data(codec.text).ok THEN codec.reply = MSG_ERR_DECODE
        ELSE codec.reply \in {LabelFromTicket, MSG_ERR_GENERIC}

\* C21: a message that holds only the ticket marker line decodes under the
\* ticket codec and is NotFound ("data not found") under the calculator
\* codec; a message that holds only the calculator marker line decodes
\* under the calculator codec and is NotFound under the ticket codec.
C21_MarkerDisambiguation ==
    (codec.pc = "replied" /\ codec.calc_reply # "none") =>
        /\ codec.text = TicketLineOnly =>
              /\ codec.result.ok /\ codec.reply = LabelFromTicket
              /\ ~codec.calc.ok /\ codec.calc_reply = MSG_ERR_NO_DATA
        /\ codec.text = CalcLineOnly =>
              /\ codec.calc.ok /\ codec.calc_reply = LabelFromCalculator
              /\ ~codec.result.ok /\ codec.reply = MSG_ERR_NO_DATA

\* C22: on every message text (absent, empty, without marker, with a
\* corrupt token, with a valid token) no exception leaves the ticket
\* decoder or the calculator decoder.
C22_DecodeIsTotal ==
    /\ codec.pc = "replied" => ~codec.escaped
    /\ codec.calc_reply # "none" => ~codec.calc_escaped

C22_Witness ==
    /\ codec.pc = "replied"
    /\ codec.calc_reply # "none"
    /\ StepRaises("b64decode", codec.text, TICKETS_DATA_MARKER)
    /\ StepRaises("b64decode", codec.text, CALC_DATA_MARKER)
    /\ ~codec.result.ok
    /\ ~codec.calc.ok

\* Positions of the text where a line of the shape marker, single space,
\* token starts: the token is not empty, is written in the base64 alphabet
\* and runs to the end of the line
MarkerLineStarts(text) ==
    {p \in 1..Len(text) :
        /\ AtLineStart(text, p)
        /\ MatchesAt(text, p, TICKETS_DATA_MARKER \o <<32>>)
        /\ LineEnd(text, p) > p + Len(TICKETS_DATA_MARKER) + 1
        /\ \A k \in (p + Len(TICKETS_DATA_MARKER) + 1)..(LineEnd(text, p) - 1) :
              IsB64Data(text[k]) \/ text[k] = BASE64_PAD}

\* C23: every message composed by the form path or by the data-source path
\* ends, after the summary block, with one line of the shape marker, single
\* space, token, whose token holds no newline; when no field of the ticket
\* holds the marker text it is the only such line of the message.
C23_OneMarkerLine ==
    (codec.pc # "idle" /\ codec.source \in {"form", "db"}) =>
        /\ \E p \in MarkerLineStarts(codec.text) :
              /\ LineEnd(codec.text, p) = Len(codec.text) - 1
              /\ codec.text[Len(codec.text)] = 10
        /\ (\A f \in {codec.ticket.p, codec.ticket.d, codec.ticket.s, codec.ticket.t} :
                ~Contains(f, TICKETS_DATA_MARKER))
              => Cardinality(MarkerLineStarts(codec.text)) = 1

\* C24: when the token of a ticket cannot be encoded, no notification for
\* that ticket is published.
C24_EncodingFailureNotPublished ==
    (codec.source = "db" /\ ~base64_encoded_json(codec.ticket, FALSE).ok)
        => codec.pc = "idle"

C26_DataSourceReadOnly ==
    [][cases' # cases =>
          /\ on_modified(DataFileEvent, TRUE)
          /\ cases' = cases \cup {Max(cases) + 1}]_vars

\* A scan has fetched a batch, sent it and ended, and the rows are all there
C26_Witness ==
    /\ lastScan = "batch"
    /\ Len(sendLog) >= 2
    /\ jobs = EmptyQueue
    /\ cases = 1..Max(cases)
    /\ Max(cases) >= 2

\* The rows being looped over by a scan whose cursor write is still to come
MidScan(j) == jobs[j].pc \in {"loop", "sending"}

\* Until its cursor write a scan holds the lock, and memory and file hold
\* the cursor the scan read.
PreScanCursorKept ==
    \A j \in DOMAIN jobs : InBody(j) =>
        /\ lockHolder = j
        /\ bot_data = jobs[j].last_known_id
        /\ load_last_known_id_from_file(idFile) = jobs[j].last_known_id

\* The first batch looped over after a start holds every row above the
\* start-up cursor.
FirstBatchComplete ==
    \A j \in DOMAIN jobs : (lastScan = "none" /\ MidScan(j)) =>
        /\ jobs[j].last_known_id = bootCursor
        /\ \A r \in cases : (r > bootCursor /\ r <= bootMax) =>
              \E k \in 1..Len(jobs[j].new_cases) : jobs[j].new_cases[k] = r

\* Once the start-up scan is over, every row above the start-up cursor has
\* been delivered by this process.
StartupBatchPublished ==
    StartupScanDone => \A r \in (bootCursor + 1)..bootMax : r \in Delivered

\* C27: within one scan the cursor, in memory and in the file, is written at
\* most once and only after every row of the batch has been attempted: a
\* step that changes either is a start-up or the last step of a scan whose
\* loop is over.  Until then memory and file hold the value the scan read.
\* A process that stops while a scan loops over its batch starts again with
\* the pre-scan cursor, below every row of that batch, and with a start-up
\* scan scheduled whose fetch returns every row of that batch; the first
\* batch looped over after a start holds every row above the start-up cursor
\* and all of them have been delivered when the start-up scan is over.
\* (The state predicates are stated of the state every step leads to; no
\* scan is under way and none is over in a state of __main__'s start.)
C27_CursorWrittenOnceAtEnd ==
    [][/\ (bot_data' # bot_data \/ idFile' # idFile) =>
             \/ Crash
             \/ \E j \in DOMAIN jobs :
                   /\ lockHolder = j
                   /\ jobs[j].pc = "loop"
                   /\ jobs[j].i > Len(jobs[j].new_cases)
                   /\ j \notin DOMAIN jobs'
                   /\ bot_data' = jobs[j].max_id_in_batch
                   /\ idFile' = save_last_known_id_to_file(idFile, bot_data', "ok")
       /\ PreScanCursorKept'
       /\ \A j \in DOMAIN jobs : (MidScan(j) /\ jobs' = BootJobs(observer, now) /\ Crash) =>
             /\ idFile' = idFile
             /\ bot_data' = jobs[j].last_known_id
             /\ jobs' = run_once(EmptyQueue, InitialSync, now, 0)
             /\ \A k \in 1..Len(jobs[j].new_cases) :
                   /\ jobs[j].new_cases[k] > bot_data'
                   /\ \E n \in 1..Len(get_new_cases_from_db(cases', bot_data', TRUE)) :
                         get_new_cases_from_db(cases', bot_data', TRUE)[n] = jobs[j].new_cases[k]
       /\ FirstBatchComplete'
       /\ StartupBatchPublished']_vars

\* The start-up scan of a process that was started again sends the second
\* row of a batch above the cursor it found in the file
C27_Witness ==
    /\ InitialSync \in DOMAIN jobs
    /\ jobs[InitialSync].ev > DB_PROCESSING_DELAY
    /\ jobs[InitialSync].pc = "sending"
    /\ jobs[InitialSync].i = 2
    /\ load_last_known_id_from_file(idFile) = bootCursor
    /\ bootCursor < jobs[InitialSync].new_cases[1]
    /\ sendLog = <<<<bootCursor + 1, TRUE>>>>

\* A decoded value that is an object carrying p, d, s and t
CarriesFourFields(ticket) == ticket.t = "dict" /\ DefaultedFields(ticket) = {}

\* C28: a token that decodes to JSON which is not an object carrying the four
\* ticket fields is answered "failed to decode"; the label is generated only
\* from a ticket none of whose fields came from a default.
C28_MalformedTicketRejected ==
    (codec.pc = "replied" /\ codec.result.ok) =>
        /\ ~CarriesFourFields(codec.result.val) => codec.reply = MSG_ERR_DECODE
        /\ codec.reply = LabelFromTicket => DefaultedFields(codec.result.val) = {}

\* C29: a call of on_modified leaves the cursor (memory and file), the sends
\* and the lock alone and moves no scan on: it either changes nothing of the
\* process or sets the debounce timestamp and hands one job, not yet
\* started, to the job queue.  The cursor is written only by a scan that
\* holds the lock, and a scan reads it in the step that gives it the lock.
C29_WatcherOnlySchedules ==
    [][/\ (\E event \in Events, insert \in BOOLEAN : on_modified(event, insert)) =>
             /\ UNCHANGED <<bot_data, idFile, sendLog, inFlight, lockHolder, waiters>>
             /\ \A j \in DOMAIN jobs : j \in DOMAIN jobs' /\ jobs'[j] = jobs[j]
             /\ IF last_processed_event_time' = last_processed_event_time
                THEN jobs' = jobs
                ELSE /\ last_processed_event_time' = now
                     /\ DOMAIN jobs' \ DOMAIN jobs = {now}
                     /\ jobs'[now].pc = "scheduled"
                     /\ jobs'[now].due = now + DB_PROCESSING_DELAY
       /\ (bot_data' # bot_data \/ idFile' # idFile) =>
             \E j \in DOMAIN jobs : lockHolder = j /\ InBody(j)
       /\ \A j \in DOMAIN jobs' :
             /\ InBody(j)' => lockHolder' = j
             /\ (j \in DOMAIN jobs /\ jobs'[j].pc = "fetch" /\ jobs[j].pc # "fetch") =>
                   jobs'[j].last_known_id = bot_data']_vars

\* A scan that read the cursor written by an earlier scan holds the lock
\* while the job of a later event waits in the job queue
C29_Witness ==
    \E j, k \in DOMAIN jobs :
        /\ lockHolder = j
        /\ InBody(j)
        /\ jobs[j].last_known_id = bot_data
        /\ bot_data > bootCursor
        /\ jobs[k].pc = "scheduled"
        /\ k = last_processed_event_time
        /\ k > jobs[j].ev

\* C30: whether a scan is under way or not, on_modified accepts an event of
\* the data file exactly when DB_PROCESSING_DELAY has passed since the last
\* accepted one, and then sets the timestamp to the time of the event and
\* schedules a scan; it is never held up by the lock: a call is possible
\* whenever the file is watched.  The timestamp is changed by no step but a
\* call of on_modified, which leaves lock, sends and cursor as they are.
C30_DebounceIndependentOfScan ==
    [][/\ (\E insert \in BOOLEAN : on_modified(DataFileEvent, insert)) =>
             IF now - last_processed_event_time < DB_PROCESSING_DELAY
             THEN last_processed_event_time' = last_processed_event_time /\ jobs' = jobs
             ELSE last_processed_event_time' = now /\ now \in DOMAIN jobs'
       /\ (observer /\ now <= MaxTime) => ENABLED on_modified(DataFileEvent, FALSE)
       /\ last_processed_event_time' # last_processed_event_time =>
             /\ \E event \in Events, insert \in BOOLEAN : on_modified(event, insert)
             /\ UNCHANGED <<lockHolder, waiters, inFlight, sendLog, bot_data, idFile>>]_vars

\* An event was accepted while a send was awaited under the lock, and a
\* later one was dropped as too soon
C30_Witness ==
    /\ lockHolder # None
    /\ inFlight # {}
    /\ last_processed_event_time \in DOMAIN jobs
    /\ jobs[last_processed_event_time].pc = "scheduled"
    /\ jobs[lockHolder].pc = "sending"
    /\ last_processed_event_time > jobs[lockHolder].due
    /\ uncovered

\* C31: the bootstrap comes strictly before scanning.  The cursor of the
\* session is set before the start-up scan is scheduled and before the
\* observer is started; a scan body runs only once run_polling is reached
\* and reads the cursor that was set, never the default of bot_data.get;
\* and when __main__ writes the cursor no job exists at all.
C31_BootstrapBeforeScanning ==
    [][/\ (jobs' # EmptyQueue \/ observer') => bot_data' # None
       /\ \A j \in DOMAIN jobs' :
             jobs'[j].pc \in {"fetch", "loop", "sending"} =>
                /\ main'.pc = "polling"
                /\ bot_data' # None
       /\ \A j \in DOMAIN jobs' :
             (jobs'[j].pc = "fetch" /\ (j \notin DOMAIN jobs \/ jobs[j].pc # "fetch")) =>
                /\ bot_data' # None
                /\ jobs'[j].last_known_id = bot_data'
       /\ (main' # main /\ bot_data' # bot_data) =>
             /\ jobs = EmptyQueue
             /\ ~observer
             /\ lockHolder = None]_vars

C31_Witness ==
    /\ main.pc = "polling"
    /\ bootFallback
    /\ lockHolder = InitialSync
    /\ jobs[InitialSync].pc = "sending"
    /\ jobs[InitialSync].last_known_id = bootCursor
    /\ jobs[InitialSync].new_cases[1] > bootMax
    /\ DOMAIN jobs # {InitialSync}

\* Every character of the content is a decimal digit
AllDecimalDigits(content) == \A i \in 1..Len(content) : IsDecimal(content[i])

\* A load that follows a successful save returns the saved id
SavedIsLoaded ==
    (main.pc = "loaded" /\ main.saved # None /\ ~main.read_raises)
        => main.current_last_known_id = main.saved

\* No exception leaves the load or the save
FileHelpersNeverRaise == main.pc \in {"loaded", "saved"} => ~main.raised

C32_RoundTripAndTotality == SavedIsLoaded /\ FileHelpersNeverRaise

\* The load returns a value exactly when the content stripped of
\* surrounding whitespace is a non-empty string of decimal digits
C32_LoadOfStrippedContent ==
    main.pc = "loaded" =>
        (main.current_last_known_id # None) =
            (/\ idFile.exists
             /\ ~main.read_raises
             /\ Strip(idFile.content) # <<>>
             /\ AllDecimalDigits(Strip(idFile.content)))

\* C35: a message composed by the form path, the data-source path or the
\* calculator path carries the ticket print button exactly when a line of
\* its text starts with the ticket marker, and the calculator print button
\* exactly when a line starts with the calculator marker, whether or not
\* the token could be encoded.
C35_ButtonIffTokenLine ==
    codec.source \in {"form", "db", "calc"} =>
        /\ (codec.button = TICKET_PRINT_BUTTON)
              = re_search(codec.text, TICKETS_DATA_MARKER).ok
        /\ (codec.button = CALC_PRINT_BUTTON)
              = re_search(codec.text, CALC_DATA_MARKER).ok

\* What holds of the three paths: a marker line always comes with its
\* button, and the form and the calculator message with a button hold
\* the marker line of that button
C35_TokenLineHasButton ==
    codec.source \in {"form", "db", "calc"} =>
        /\ re_search(codec.text, TICKETS_DATA_MARKER).ok => codec.button = TICKET_PRINT_BUTTON
        /\ re_search(codec.text, CALC_DATA_MARKER).ok => codec.button = CALC_PRINT_BUTTON
        /\ (codec.source = "form" /\ codec.button = TICKET_PRINT_BUTTON)
              => re_search(codec.text, TICKETS_DATA_MARKER).ok
        /\ (codec.source = "calc" /\ codec.button = CALC_PRINT_BUTTON)
              => re_search(codec.text, CALC_DATA_MARKER).ok


\* The running handler has called bot.send_message on the target channel
ChannelPosts == {i \in DOMAIN handler.calls :
                    handler.calls[i][1] = "send_message" /\ handler.calls[i][2] = "channel"}

BatchEnds(j) ==
    /\ jobs[j].pc = "loop"
    /\ jobs[j].i > Len(jobs[j].new_cases)
    /\ j \notin DOMAIN jobs'
    /\ lastScan' = "batch"

IsChannelPost(call) == call[1] = "send_message" /\ call[2] = "channel" /\ call[3] = "ticket"

IsConfirmation(call) == call[1] = "reply_text" /\ call[2] = "user" /\ call[3] = "ticket"

\* C36: in the form handler, outside debug mode, the confirmation is sent
\* to the user only right after the post on the channel has succeeded; after
\* a failed post the handler's next call is the error reply and it never
\* sends the confirmation; when the token cannot be encoded no ticket
\* message is sent to the channel or to the user, only the error reply.
C36_ChannelPostBeforeConfirmation ==
    handler.name = "process_ticket_app_data" =>
        LET calls == handler.calls
        IN /\ \A i \in DOMAIN calls :
                 IsConfirmation(calls[i]) /\ ~debug_mode =>
                     /\ i > 1
                     /\ IsChannelPost(calls[i - 1])
                     /\ calls[i - 1][4]
           /\ \A i \in DOMAIN calls :
                 IsChannelPost(calls[i]) /\ ~calls[i][4] =>
                     /\ \A k \in DOMAIN calls : ~IsConfirmation(calls[k])
                     /\ i < Len(calls) =>
                           calls[i + 1][3] = "error posting your ticket to the channel"
                     /\ handler.pc = "done" => i < Len(calls)
           /\ handler.local = "encoding failed" =>
                 /\ \A i \in DOMAIN calls : calls[i][3] # "ticket"
                 /\ handler.pc = "done" =>
                       calls # <<>> /\ calls[1][3] = "error preparing your ticket data"

\* Outside debug mode the handler has posted the ticket on the channel and
\* then confirmed it to the user
C36_Witness ==
    /\ ~debug_mode
    /\ handler.name = "process_ticket_app_data"
    /\ handler.pc = "done"
    /\ handler.calls = << <<"send_message", "channel", "ticket", TRUE>>,
                          <<"reply_text", "user", "ticket", TRUE>> >>

PrintCallbacks == {"handle_ticket_print_callback", "handle_calculator_print_callback"}

\* Calls of delete_message on the temporary message by the running handler
DeleteAttempts ==
    Cardinality({i \in DOMAIN handler.calls : handler.calls[i][1] = "delete_message"})

\* C37: in both print callbacks, once the temporary message has been
\* posted, the handler attempts to delete it exactly once on every exit:
\* never more than once, and once when the handler is left.
C37_TempMessageDeletedOnce ==
    handler.name \in PrintCallbacks /\ handler.temp_msg =>
        /\ DeleteAttempts <= 1
        /\ handler.pc = "done" => DeleteAttempts = 1

\* handle_ticket_print_callback attempts the deletion exactly once; the
\* calculator callback at least once and at most twice
DeletedOnceOrTwice ==
    handler.name \in PrintCallbacks /\ handler.temp_msg =>
        /\ handler.name = "handle_ticket_print_callback" => DeleteAttempts <= 1
        /\ DeleteAttempts <= 2
        /\ handler.pc = "done" => DeleteAttempts >= 1

\* Replies of the running /start handler
KeyboardShown ==
    \E i \in DOMAIN handler.calls :
        handler.calls[i][1] = "reply_text" /\ handler.calls[i][3] = "ReplyKeyboardMarkup"

Denied ==
    \E i \in DOMAIN handler.calls :
        handler.calls[i][1] = "reply_text" /\ handler.calls[i][3] = "ReplyKeyboardRemove"

\* C38: /start replies with the web-app keyboard only if debug mode is on or
\* get_chat_member returned the status member, administrator or owner
\* (creator); after any other status or any error of the membership check
\* the handler's reply is the denial that removes the keyboard, and it never
\* sends both.
C38_KeyboardOnlyForMembers ==
    handler.name = "start_command" =>
        /\ KeyboardShown =>
              \/ debug_mode
              \/ \E i \in DOMAIN handler.calls :
                    /\ handler.calls[i][1] = "get_chat_member"
                    /\ handler.calls[i][4]
                    /\ handler.calls[i][3] \in {"member", "administrator", "creator"}
        /\ ~(KeyboardShown /\ Denied)
        /\ ~debug_mode /\ handler.pc \in {"deny", "done"} /\ handler.exc = "none"
           /\ handler.local \notin {"member", "administrator", "creator"} =>
              /\ ~KeyboardShown
              /\ handler.pc = "done" => Denied

\* Outside debug mode a user whose status is left has been denied, the
\* keyboard removed
C38_Witness ==
    /\ ~debug_mode
    /\ handler.name = "start_command"
    /\ handler.pc = "done"
    /\ handler.calls = << <<"get_chat_member", "channel", "left", TRUE>>,
                          <<"reply_text", "user", "ReplyKeyboardRemove", TRUE>> >>

====
